---- MODULE Spec2Model ----
(***************************************************************************)
(* scoped-heed: Redis-style scopes on top of one heed/LMDB environment.    *)
(*                                                                         *)
(* The environment holds one registry sub-database (scope hash -> name)    *)
(* and, per container, a default sub-database and a scoped sub-database.   *)
(* Sub-databases are ordered maps from byte strings to values; the engine  *)
(* orders keys with its default comparator: lexicographic on bytes, a      *)
(* proper prefix sorting first.                                            *)
(*                                                                         *)
(* A u32 is kept as the pair <<high 16 bits, low 16 bits>> so that the     *)
(* whole 32-bit range, u32::MAX included, is representable.                *)
(***************************************************************************)
EXTENDS Integers, Sequences, FiniteSets, TLC

VARIABLES
    registry,    \* GlobalScopeRegistry.metadata_db : scope hash -> scope name
    db_default,  \* per container: db_default, stored key bytes -> value
    db_scoped,   \* per container: db_scoped, composite key bytes -> value
    last,        \* the operation that ran last and what it returned
    wtxn,        \* the environment's open write transaction and what it has staged
    writers      \* per writer thread: where it stands in its write transaction

vars == <<registry, db_default, db_scoped, last, wtxn, writers>>

txnvars == <<wtxn, writers>>

-----------------------------------------------------------------------------
(* Bounds of the model *)

\* Entries stored in the whole environment (all sub-databases of all containers).
MaxEntries == 2

-----------------------------------------------------------------------------
(* u32 and byte strings *)

\* u32::MAX
U32_MAX == <<65535, 65535>>

\* u32::to_le_bytes
to_le_bytes(h) == <<h[2] % 256, h[2] \div 256, h[1] % 256, h[1] \div 256>>

\* u32::from_le_bytes
from_le_bytes(b) == <<b[3] + 256 * b[4], b[1] + 256 * b[2]>>

\* u32::wrapping_add(1); also `scope_hash + 1`, which the code evaluates
\* only when scope_hash /= u32::MAX
wrapping_add_1(h) ==
    IF h[2] = 65535 THEN <<(h[1] + 1) % 65536, 0>> ELSE <<h[1], h[2] + 1>>

\* (n as u64).to_le_bytes(), for the lengths the model reaches (n < 2^24)
u64_to_le_bytes(n) ==
    <<n % 256, (n \div 256) % 256, (n \div 65536) % 256, 0, 0, 0, 0, 0>>

\* u64::from_le_bytes on the 8 length bytes; lengths beyond the model's
\* range are reported as a value no buffer of the model can hold.
u64_from_le_bytes(b) ==
    IF \E i \in 4..8 : b[i] /= 0
    THEN 16777216
    ELSE b[1] + 256 * b[2] + 65536 * b[3]

\* The engine's default key comparator (memcmp, then length): a < b
LexLess(a, b) ==
    \E i \in 1..(Len(b)) :
        /\ \A j \in 1..(i - 1) : j <= Len(a) /\ a[j] = b[j]
        /\ \/ i = Len(a) + 1
           \/ i <= Len(a) /\ a[i] < b[i]

LexLeq(a, b) == a = b \/ LexLess(a, b)

-----------------------------------------------------------------------------
(* Key codecs *)

CodecErr == [err |-> "Encoding"]

\* The thread panics (arithmetic overflow, slice index out of order)
Panic == [err |-> "panic"]

\* `key_start + key_len as usize` exceeds usize::MAX (64 bits): the declared
\* key length is above u64::MAX - 12 = 0xffff_ffff_ffff_fff3
key_end_overflows(b) == b[1] >= 244 /\ \A i \in 2..8 : b[i] = 255

\* An encoding that leaves the key length out
ScopedBytesCodec_encode_NoLength(scope_hash, key) == to_le_bytes(scope_hash) \o key

\* An encoding that puts the scope hash after the key
ScopedBytesCodec_encode_HashLast(scope_hash, key) ==
    u64_to_le_bytes(Len(key)) \o key \o to_le_bytes(scope_hash)

\* ScopedBytesCodec::encode
ScopedBytesCodec_encode(scope_hash, key) ==
    to_le_bytes(scope_hash) \o u64_to_le_bytes(Len(key)) \o key

\* ScopedBytesCodec::decode
ScopedBytesCodec_decode(bytes) ==
    IF Len(bytes) < 12
    THEN CodecErr
    ELSE LET scope_hash == from_le_bytes(SubSeq(bytes, 1, 4))
             key_len    == u64_from_le_bytes(SubSeq(bytes, 5, 12))
             key_end    == 12 + key_len
         IN  \* with overflow checks the addition panics; without them key_end
             \* wraps to a value below key_start and the slice panics
             IF key_end_overflows(SubSeq(bytes, 5, 12))
             THEN Panic
             ELSE IF Len(bytes) < key_end
                  THEN CodecErr
                  ELSE [scope_hash |-> scope_hash, key |-> SubSeq(bytes, 13, key_end)]

\* SerdeBincode<String>: u64 length, little-endian, then the bytes
bincode_key(key) == u64_to_le_bytes(Len(key)) \o key

bincode_key_decode(bytes) ==
    SubSeq(bytes, 9, 8 + u64_from_le_bytes(SubSeq(bytes, 1, 8)))

\* SerdeBincode<ScopedKey<String>>: the u32 scope_hash little-endian, then the key
bincode_scoped_key(sk) == to_le_bytes(sk.scope_hash) \o bincode_key(sk.key)

\* utils::get_key_default::<String>()
get_key_default == << >>

-----------------------------------------------------------------------------
(* The engine: a sub-database is a function from stored key bytes to values *)

EmptyDb == [k \in {} |-> 0]

None == [some |-> FALSE]
Some(v) == [some |-> TRUE, val |-> v]

heed_put(db, k, v) == [x \in (DOMAIN db) \cup {k} |-> IF x = k THEN v ELSE db[x]]

heed_get(db, k) == IF k \in DOMAIN db THEN Some(db[k]) ELSE None

heed_delete(db, k) == [x \in (DOMAIN db) \ {k} |-> db[x]]

\* std::ops::Bound
Unbounded == [kind |-> "Unbounded"]
Included(k) == [kind |-> "Included", key |-> k]
Excluded(k) == [kind |-> "Excluded", key |-> k]

\* The range cursor starts at the first stored key at or after the start bound ...
AfterStart(k, lo) ==
    CASE lo.kind = "Unbounded" -> TRUE
      [] lo.kind = "Included"  -> LexLeq(lo.key, k)
      [] lo.kind = "Excluded"  -> LexLess(lo.key, k)

\* ... and stops at the first stored key beyond the end bound.
BeforeEnd(k, hi) ==
    CASE hi.kind = "Unbounded" -> TRUE
      [] hi.kind = "Included"  -> LexLeq(k, hi.key)
      [] hi.kind = "Excluded"  -> LexLess(k, hi.key)

RECURSIVE SortKeys(_)
SortKeys(S) ==
    IF S = {} THEN << >>
    ELSE LET m == CHOOSE x \in S : \A y \in S : LexLeq(x, y)
         IN  <<m>> \o SortKeys(S \ {m})

\* Database::range: the stored keys within the bounds, in the engine's key order
heed_range(db, lo, hi) ==
    SortKeys({k \in DOMAIN db : AfterStart(k, lo) /\ BeforeEnd(k, hi)})

\* Database::iter: every stored key, in the engine's key order
heed_iter(db) == heed_range(db, Unbounded, Unbounded)

\* Database::delete_range, and range_mut with del_current on every item
heed_delete_range(db, lo, hi) ==
    [x \in {k \in DOMAIN db : ~(AfterStart(k, lo) /\ BeforeEnd(k, hi))} |-> db[x]]

\* The items of a sequence, as a set
Items(seq) == {seq[i] : i \in 1..Len(seq)}

-----------------------------------------------------------------------------
(* Scopes, containers and the inputs the model draws *)

\* Scope::Default and Scope::Named { name, hash }
Default == [kind |-> "Default"]
Named(name, hash) == [kind |-> "Named", name |-> name, hash |-> hash]

\* compute_xxhash (XxHash32, seed 0) of the scope names the model uses:
\*   "tenant_2" -> 0x540ebefd, "tenant_4" -> 0x7c2feefd, "abc" -> 0x32d153ff,
\*   "scope_33896" -> 0x9accec80, "scope_112499" -> 0x9accec80 (a collision),
\*   "" -> 0x02cc5d05
compute_xxhash(name) ==
    CASE name = ""             -> <<716, 23813>>
      [] name = "tenant_2"     -> <<21518, 48893>>
      [] name = "tenant_4"     -> <<31791, 61181>>
      [] name = "abc"          -> <<13009, 21503>>
      [] name = "scope_33896"  -> <<39628, 60544>>
      [] name = "scope_112499" -> <<39628, 60544>>

\* Scope::named, for a non-empty name
Scope_named(name) == Named(name, compute_xxhash(name))

ScopeNames == {"tenant_2", "tenant_4", "abc"}

NamedScopes == {Scope_named(n) : n \in ScopeNames}

Scopes == {Default} \cup NamedScopes

\* Two names that Scope::named maps to the same hash
CollidingNames == {"scope_33896", "scope_112499"}

CollidingScopes == {Scope_named(n) : n \in CollidingNames}

\* Scope::Named built by the caller from its (public) fields, with a hash that
\* is not the hash of its name
ForgedScopes == {Named("tenant_4", compute_xxhash("tenant_2"))}

\* Every scope value a caller can hand to the registry and the containers
ApiScopes == Scopes \cup CollidingScopes \cup ForgedScopes

ApiNamedScopes == ApiScopes \ {Default}

ApiNames == ScopeNames \cup CollidingNames

ApiHashes == {compute_xxhash(n) : n \in ApiNames}

\* ScopedDbError::EmptyScopeDisallowed
EmptyScopeDisallowed == [ok |-> FALSE, err |-> "EmptyScopeDisallowed"]

\* Scope::named that hashes whatever name it is given
named_AcceptsEmpty(name) == [ok |-> TRUE, val |-> Named(name, compute_xxhash(name))]

\* Scope::named: Result<Scope, ScopedDbError>
named(name) ==
    IF name = ""
    THEN EmptyScopeDisallowed
    ELSE [ok |-> TRUE, val |-> Named(name, compute_xxhash(name))]

\* impl From<&str> for Scope
Scope_from_str(name) ==
    IF name = ""
    THEN Default
    ELSE LET r == named(name)
         IN  IF r.ok THEN r.val ELSE Default

\* impl From<Option<&str>> for Scope
Scope_from_option(name) ==
    IF name.some THEN Scope_from_str(name.val) ELSE Default

\* Scope::name
Scope_name(scope) == IF scope.kind = "Default" THEN None ELSE Some(scope.name)

\* Scope::hash
Scope_hash(scope) == IF scope.kind = "Default" THEN None ELSE Some(scope.hash)

\* #[derive(PartialEq)] on Scope: the same variant, and every field of the
\* variant equal
Scope_eq(a, b) ==
    /\ a.kind = b.kind
    /\ a.kind = "Named" => (a.name = b.name /\ a.hash = b.hash)

\* The names handed to the constructors: the empty name and the names above
NameInputs == {""} \cup ApiNames

\* Option<&str> handed to the conversion
OptionInputs == {None} \cup {Some(n) : n \in NameInputs}

\* One container of each flavour, all bound to the one registry:
\*   ScopedDatabase<String, V>, ScopedBytesKeyDatabase<V>, ScopedBytesDatabase
Containers == {"typed", "bytes_key", "raw_bytes"}

\* User keys: "a" and "aa"
Keys == { <<97>>, <<97, 97>> }

Values == {"v1", "v2"}

\* Ranges given by the caller: (start bound, end bound) over "a" and "b",
\* every kind of bound at either end
Ranges ==
    { <<Unbounded, Unbounded>>,
      <<Unbounded, Included(<<98>>)>>,
      <<Unbounded, Excluded(<<98>>)>>,
      <<Included(<<97>>), Unbounded>>,
      <<Excluded(<<97>>), Unbounded>>,
      <<Included(<<97>>), Included(<<98>>)>>,
      <<Included(<<97>>), Excluded(<<98>>)>>,
      <<Excluded(<<97>>), Included(<<98>>)>> }

\* The checker lists handed to prune_globally_unused_scopes
CheckerLists ==
    { << >>, <<"typed">>, <<"bytes_key">>, <<"raw_bytes">>,
      <<"typed", "bytes_key">>, <<"bytes_key", "raw_bytes">>,
      <<"typed", "bytes_key", "raw_bytes">> }

Ok == [ok |-> TRUE]
InvalidInput(name, existing_name) ==
    [ok |-> FALSE, err |-> "InvalidInput", names |-> {name, existing_name}]

-----------------------------------------------------------------------------
(* GlobalScopeRegistry *)

\* register_scope that lets the later name take over the id
register_scope_Overwrite(reg, scope) ==
    IF scope.kind = "Named"
    THEN [reg |-> heed_put(reg, scope.hash, scope.name), res |-> Ok]
    ELSE [reg |-> reg, res |-> Ok]

\* register_scope that takes any entry under the id for a collision
register_scope_StrictNew(reg, scope) ==
    IF scope.kind = "Named"
    THEN IF scope.hash \in DOMAIN reg
         THEN [reg |-> reg, res |-> InvalidInput(scope.name, reg[scope.hash])]
         ELSE [reg |-> heed_put(reg, scope.hash, scope.name), res |-> Ok]
    ELSE [reg |-> reg, res |-> Ok]

\* GlobalScopeRegistry::register_scope: the registry afterwards and the result
register_scope(reg, scope) ==
    IF scope.kind = "Named"
    THEN IF scope.hash \in DOMAIN reg
         THEN IF reg[scope.hash] /= scope.name
              THEN [reg |-> reg, res |-> InvalidInput(scope.name, reg[scope.hash])]
              ELSE [reg |-> reg, res |-> Ok]
         ELSE [reg |-> heed_put(reg, scope.hash, scope.name), res |-> Ok]
    ELSE [reg |-> reg, res |-> Ok]

\* unregister_scope that leaves the entry in place
unregister_scope_Keep(reg, hash) == reg

\* GlobalScopeRegistry::unregister_scope
unregister_scope(reg, hash) ==
    IF hash \in DOMAIN reg THEN heed_delete(reg, hash) ELSE reg

\* metadata_db.iter: the hashes in the order of their stored (little-endian) keys
metadata_iter(reg) ==
    LET ks == SortKeys({to_le_bytes(h) : h \in DOMAIN reg})
    IN  [i \in 1..Len(ks) |-> from_le_bytes(ks[i])]

\* GlobalScopeRegistry::list_all_scopes
list_all_scopes(reg) ==
    LET hs == metadata_iter(reg)
    IN  <<Default>> \o [i \in 1..Len(hs) |-> Named(reg[hs[i]], hs[i])]

\* GlobalScopeRegistry::get_scope_name
get_scope_name(reg, hash) == heed_get(reg, hash)

\* GlobalScopeRegistry::lookup_scope_hash: the first hash, in the order of
\* metadata_db.iter, whose stored name is the name asked for
lookup_scope_hash(reg, name) ==
    LET hs == SelectSeq(metadata_iter(reg), LAMBDA h : reg[h] = name)
    IN  IF hs = << >> THEN None ELSE Some(Head(hs))

\* A scope_exists that looks for the name among the registry's values
scope_exists_ByName(reg, scope) ==
    IF scope.kind = "Default" THEN TRUE
    ELSE \E h \in DOMAIN reg : reg[h] = scope.name

\* GlobalScopeRegistry::scope_exists
scope_exists(reg, scope) ==
    IF scope.kind = "Default" THEN TRUE ELSE heed_get(reg, scope.hash).some

-----------------------------------------------------------------------------
(* Containers: key encodings *)

\* The stored key of a default-scope entry: SerdeBincode<K> in the typed
\* container, the raw bytes in the two byte-key containers
DefaultKey(c, key) == IF c = "typed" THEN bincode_key(key) ELSE key

DefaultKeyDecode(c, bytes) == IF c = "typed" THEN bincode_key_decode(bytes) ELSE bytes

\* A composite key that leaves the scope out (every scope shares one prefix)
ScopedKey_NoScope(c, hash, key) ==
    IF c = "typed"
    THEN bincode_scoped_key([scope_hash |-> <<0, 0>>, key |-> key])
    ELSE ScopedBytesCodec_encode(<<0, 0>>, key)

\* The stored key of a named-scope entry: SerdeBincode<ScopedKey<K>> in the
\* typed container, ScopedBytesCodec in the two byte-key containers
ScopedKey(c, hash, key) ==
    IF c = "typed"
    THEN bincode_scoped_key([scope_hash |-> hash, key |-> key])
    ELSE ScopedBytesCodec_encode(hash, key)

\* Decoding a stored composite key: ScopedBytesCodec::decode in the two
\* byte-key containers; bincode reads the same layout in the typed one and
\* answers a length it cannot satisfy with an error
ScopedKeyDecode(c, bytes) ==
    LET decoded == ScopedBytesCodec_decode(bytes)
    IN  IF c = "typed" /\ decoded = Panic THEN CodecErr ELSE decoded

\* get: the value stored for (scope, key), read from the given sub-databases
get(c, dflt, scoped, scope, key) ==
    IF scope.kind = "Default"
    THEN heed_get(dflt, DefaultKey(c, key))
    ELSE heed_get(scoped, ScopedKey(c, scope.hash, key))

-----------------------------------------------------------------------------
(* Containers: the bounded range of one scope *)

\* ScopedDatabase: start of the scope's range (clear, is_scope_empty, iter)
Typed_start(hash) ==
    Included(bincode_scoped_key([scope_hash |-> hash, key |-> get_key_default]))

\* ScopedDatabase::clear: the end bound, always Excluded
Typed_clear_end(hash) ==
    IF hash = U32_MAX
    THEN Excluded(bincode_scoped_key([scope_hash |-> hash, key |-> get_key_default]))
    ELSE Excluded(bincode_scoped_key(
             [scope_hash |-> wrapping_add_1(hash), key |-> get_key_default]))

\* ScopedDatabase::iter / is_scope_empty / range (unbounded end): the end bound
Typed_end(hash) ==
    IF hash = U32_MAX
    THEN Included(bincode_scoped_key([scope_hash |-> hash, key |-> get_key_default]))
    ELSE Excluded(bincode_scoped_key(
             [scope_hash |-> wrapping_add_1(hash), key |-> get_key_default]))

\* ScopedBytesKeyDatabase / ScopedBytesDatabase: start of the scope's range
Bytes_start(hash) == Included(ScopedBytesCodec_encode(hash, << >>))

\* ScopedBytesKeyDatabase / ScopedBytesDatabase: end of the scope's range
Bytes_end(hash) ==
    IF hash = U32_MAX
    THEN Included(ScopedBytesCodec_encode(hash, <<255>>))
    ELSE Excluded(ScopedBytesCodec_encode(wrapping_add_1(hash), << >>))

\* clear on a named scope: the scoped sub-database afterwards
clear_scoped(c, scoped, hash) ==
    IF c = "typed"
    THEN heed_delete_range(scoped, Typed_start(hash), Typed_clear_end(hash))
    ELSE heed_delete_range(scoped, Bytes_start(hash), Bytes_end(hash))

\* heed::Error::Decoding, yielded by a scan in place of an entry whose key
\* or value does not decode
DecodingErr == <<"Decoding">>

\* The decoder panicked: the scan unwinds and yields nothing more
PanicItem == <<"panic">>

\* The value codec: SerdeBincode<V> rejects the bytes that "bad" stands for,
\* Bytes takes any
value_decodes(c, value) == c = "raw_bytes" \/ value /= "bad"

\* The stored keys a scan gets to: all of ks, or those up to the first one on
\* which the key decoder panics
UntilPanic(c, ks) ==
    LET panics == {i \in 1..Len(ks) : ScopedKeyDecode(c, ks[i]) = Panic}
    IN  IF panics = {} THEN ks
        ELSE SubSeq(ks, 1, CHOOSE i \in panics : \A j \in panics : i <= j)

\* The entry at the stored key b does not decode
DecodeFails(c, scoped, b) ==
    \/ "err" \in DOMAIN ScopedKeyDecode(c, b)
    \/ ~value_decodes(c, scoped[b])

\* What the engine's iterator yields for the entry at the stored key b
heed_item(c, scoped, b) ==
    CASE ScopedKeyDecode(c, b) = Panic -> PanicItem
      [] ScopedKeyDecode(c, b) /= Panic /\ DecodeFails(c, scoped, b) -> DecodingErr
      [] OTHER -> <<ScopedKeyDecode(c, b).key, scoped[b]>>

\* The hash re-check left out of the filter
ScopedItems_NoFilter(c, scoped, ks, scope_hash) ==
    [i \in 1..Len(ks) |-> <<ScopedKeyDecode(c, ks[i]).key, scoped[ks[i]]>>]

\* The (key, value) items of the stored keys ks that carry scope_hash
ScopedItems(c, scoped, ks, scope_hash) ==
    LET kept == SelectSeq(UntilPanic(c, ks), LAMBDA b :
                    \/ DecodeFails(c, scoped, b)
                    \/ ScopedKeyDecode(c, b).scope_hash = scope_hash)
    IN  [i \in 1..Len(kept) |-> heed_item(c, scoped, kept[i])]

\* The (key, value) items of the stored keys ks, whatever scope they carry
ScopedItemsUnfiltered(c, scoped, ks) ==
    LET scanned == UntilPanic(c, ks)
    IN  [i \in 1..Len(scanned) |-> heed_item(c, scoped, scanned[i])]

DefaultItems(c, dflt, ks) ==
    [i \in 1..Len(ks) |-> <<DefaultKeyDecode(c, ks[i]), dflt[ks[i]]>>]

\* iter: the items yielded, in order
iter(c, dflt, scoped, scope) ==
    IF scope.kind = "Default"
    THEN DefaultItems(c, dflt, heed_iter(dflt))
    ELSE CASE c = "typed" ->
                ScopedItems(c, scoped,
                    heed_range(scoped, Typed_start(scope.hash), Typed_end(scope.hash)),
                    scope.hash)
           [] c = "bytes_key" ->
                ScopedItems(c, scoped,
                    heed_range(scoped, Bytes_start(scope.hash), Bytes_end(scope.hash)),
                    scope.hash)
           [] c = "raw_bytes" ->
                ScopedItems(c, scoped, heed_iter(scoped), scope.hash)

\* is_scope_empty / ScopeEmptinessChecker::is_scope_empty_in_db
is_scope_empty(c, dflt, scoped, scope) ==
    IF scope.kind = "Default"
    THEN heed_iter(dflt) = << >>
    ELSE LET ks == CASE c = "typed" ->
                        heed_range(scoped, Typed_start(scope.hash), Typed_end(scope.hash))
                     [] c = "bytes_key" ->
                        heed_range(scoped, Bytes_start(scope.hash), Bytes_end(scope.hash))
                     [] c = "raw_bytes" -> heed_iter(scoped)
         IN  ~ \E i \in 1..Len(ks) : ScopedKeyDecode(c, ks[i]).scope_hash = scope.hash

-----------------------------------------------------------------------------
(* Containers: range *)

\* A caller's bound on user keys, carried over to the keys of db_default
DefaultBound(c, b) ==
    CASE b.kind = "Unbounded" -> Unbounded
      [] b.kind = "Included"  -> Included(DefaultKey(c, b.key))
      [] b.kind = "Excluded"  -> Excluded(DefaultKey(c, b.key))

\* A caller's bound on user keys, carried over to the composite keys of a scope
ScopedBound(c, scope_hash, b) ==
    CASE b.kind = "Included"  -> Included(ScopedKey(c, scope_hash, b.key))
      [] b.kind = "Excluded"  -> Excluded(ScopedKey(c, scope_hash, b.key))

\* ScopedDatabase::range, named scope: the re-check of the caller's bounds in
\* the order of K (String: lexicographic on the bytes)
in_original_range(key, lo, hi) == AfterStart(key, lo) /\ BeforeEnd(key, hi)

\* ScopedDatabase::range, named scope
Typed_range(scoped, scope_hash, lo, hi) ==
    LET transformed_start ==
            IF lo.kind = "Unbounded" THEN Typed_start(scope_hash)
            ELSE ScopedBound("typed", scope_hash, lo)
        transformed_end ==
            IF hi.kind = "Unbounded" THEN Typed_end(scope_hash)
            ELSE ScopedBound("typed", scope_hash, hi)
        ks   == heed_range(scoped, transformed_start, transformed_end)
        kept == SelectSeq(UntilPanic("typed", ks), LAMBDA b :
                    \/ DecodeFails("typed", scoped, b)
                    \/ /\ ScopedKeyDecode("typed", b).scope_hash = scope_hash
                       /\ in_original_range(ScopedKeyDecode("typed", b).key, lo, hi))
    IN  [i \in 1..Len(kept) |-> heed_item("typed", scoped, kept[i])]

\* ScopedBytesKeyDatabase::range and ScopedBytesDatabase::range, named scope
Bytes_range(c, scoped, scope_hash, lo, hi) ==
    LET transformed_start ==
            IF lo.kind = "Unbounded" THEN Bytes_start(scope_hash)
            ELSE ScopedBound(c, scope_hash, lo)
        transformed_end ==
            IF hi.kind = "Unbounded" THEN Bytes_end(scope_hash)
            ELSE ScopedBound(c, scope_hash, hi)
    IN  ScopedItemsUnfiltered(c, scoped,
            heed_range(scoped, transformed_start, transformed_end))

\* range: the items yielded, in order
range(c, dflt, scoped, scope, lo, hi) ==
    IF scope.kind = "Default"
    THEN DefaultItems(c, dflt,
             heed_range(dflt, DefaultBound(c, lo), DefaultBound(c, hi)))
    ELSE IF c = "typed"
         THEN Typed_range(scoped, scope.hash, lo, hi)
         ELSE Bytes_range(c, scoped, scope.hash, lo, hi)

-----------------------------------------------------------------------------
(* Lifecycle: find_empty_scopes and prune_globally_unused_scopes *)

\* find_empty_scopes: the named scopes of the registry that are empty in c
find_empty_scopes(c, reg, dflt, scoped) ==
    LET scopes == list_all_scopes(reg)
    IN  Cardinality({i \in 1..Len(scopes) :
            /\ scopes[i].kind = "Named"
            /\ is_scope_empty(c, dflt, scoped, scopes[i])})

\* The inner loop of prune: every checker of the list reports the scope empty
\* (the loop breaks at the first that does not)
all_report_empty_Any(databases, dflt, scoped, scope) ==
    \E i \in 1..Len(databases) :
        is_scope_empty(databases[i], dflt[databases[i]], scoped[databases[i]], scope)

all_report_empty(databases, dflt, scoped, scope) ==
    \A i \in 1..Len(databases) :
        is_scope_empty(databases[i], dflt[databases[i]], scoped[databases[i]], scope)

\* The outer loop of prune over the listed scopes, Default skipped
RECURSIVE prune_loop(_, _, _, _, _, _)
prune_loop(scopes, reg, pruned_count, databases, dflt, scoped) ==
    IF scopes = << >>
    THEN [reg |-> reg, pruned_count |-> pruned_count]
    ELSE LET scope == Head(scopes)
         IN  IF scope.kind = "Named" /\ all_report_empty(databases, dflt, scoped, scope)
             THEN prune_loop(Tail(scopes), unregister_scope(reg, scope.hash),
                             pruned_count + 1, databases, dflt, scoped)
             ELSE prune_loop(Tail(scopes), reg, pruned_count, databases, dflt, scoped)

\* GlobalScopeRegistry::prune_globally_unused_scopes
prune_globally_unused_scopes(reg, databases, dflt, scoped) ==
    IF databases = << >>
    THEN [reg |-> reg, pruned_count |-> 0]
    ELSE prune_loop(list_all_scopes(reg), reg, 0, databases, dflt, scoped)

-----------------------------------------------------------------------------
(* The state machine: every operation runs in its own committed transaction *)

Entries(db) == Cardinality(DOMAIN db)

TotalEntries ==
    Entries(db_default["typed"]) + Entries(db_scoped["typed"])
    + Entries(db_default["bytes_key"]) + Entries(db_scoped["bytes_key"])
    + Entries(db_default["raw_bytes"]) + Entries(db_scoped["raw_bytes"])

\* The writer threads that share the environment
Writers == {"w1", "w2"}

\* No write transaction is open
NoTxn ==
    [owner |-> "none", registry |-> EmptyDb,
     db_default |-> [c \in Containers |-> EmptyDb],
     db_scoped |-> [c \in Containers |-> EmptyDb]]

\* A writer thread that has not yet asked for its write transaction
IdleWriter == [pc |-> "idle", name |-> "", res |-> Ok, inserted |-> FALSE]

\* GlobalScopeRegistry::new and the create of each container: empty sub-databases
Init ==
    /\ registry = EmptyDb
    /\ db_default = [c \in Containers |-> EmptyDb]
    /\ db_scoped = [c \in Containers |-> EmptyDb]
    /\ last = [op |-> "create", ret |-> Ok]
    /\ wtxn = NoTxn
    /\ writers = [w \in Writers |-> IdleWriter]

\* put that writes the entry before it registers the scope
Put_WriteFirst(c, scope, key, value) ==
    /\ wtxn.owner = "none"
    /\ UNCHANGED txnvars
    /\ \/ get(c, db_default[c], db_scoped[c], scope, key).some
       \/ TotalEntries < MaxEntries
    /\ IF scope.kind = "Default"
       THEN /\ db_default' = [db_default EXCEPT ![c] = heed_put(@, DefaultKey(c, key), value)]
            /\ last' = [op |-> "put", ret |-> Ok]
            /\ UNCHANGED <<registry, db_scoped>>
       ELSE LET r == register_scope(registry, scope)
            IN  /\ registry' = r.reg
                /\ db_scoped' = [db_scoped EXCEPT
                       ![c] = heed_put(@, ScopedKey(c, scope.hash, key), value)]
                /\ last' = [op |-> "put", ret |-> r.res]
                /\ UNCHANGED db_default

\* put
Put(c, scope, key, value) ==
    /\ wtxn.owner = "none"
    /\ UNCHANGED txnvars
    /\ \/ get(c, db_default[c], db_scoped[c], scope, key).some
       \/ TotalEntries < MaxEntries
    /\ IF scope.kind = "Default"
       THEN /\ db_default' = [db_default EXCEPT ![c] = heed_put(@, DefaultKey(c, key), value)]
            /\ last' = [op |-> "put", ret |-> Ok]
            /\ UNCHANGED <<registry, db_scoped>>
       ELSE LET r == register_scope(registry, scope)
            IN  IF r.res.ok
                THEN /\ registry' = r.reg
                     /\ db_scoped' = [db_scoped EXCEPT
                            ![c] = heed_put(@, ScopedKey(c, scope.hash, key), value)]
                     /\ last' = [op |-> "put", ret |-> Ok]
                     /\ UNCHANGED db_default
                ELSE /\ last' = [op |-> "put", ret |-> r.res]
                     /\ UNCHANGED <<registry, db_default, db_scoped>>

\* get
Get(c, scope, key) ==
    /\ UNCHANGED txnvars
    /\ last' = [op |-> "get", ret |-> get(c, db_default[c], db_scoped[c], scope, key)]
    /\ UNCHANGED <<registry, db_default, db_scoped>>

\* delete that removes the key from the default sub-database as well
Delete_BothSubDatabases(c, scope, key) ==
    /\ wtxn.owner = "none"
    /\ UNCHANGED txnvars
    /\ last' = [op |-> "delete",
                ret |-> get(c, db_default[c], db_scoped[c], scope, key).some]
    /\ db_default' = [db_default EXCEPT ![c] = heed_delete(@, DefaultKey(c, key))]
    /\ IF scope.kind = "Default"
       THEN UNCHANGED <<registry, db_scoped>>
       ELSE /\ db_scoped' = [db_scoped EXCEPT
                   ![c] = heed_delete(@, ScopedKey(c, scope.hash, key))]
            /\ UNCHANGED registry

\* delete: true iff an entry was removed; does not register the scope
Delete(c, scope, key) ==
    /\ wtxn.owner = "none"
    /\ UNCHANGED txnvars
    /\ last' = [op |-> "delete",
                ret |-> get(c, db_default[c], db_scoped[c], scope, key).some]
    /\ IF scope.kind = "Default"
       THEN /\ db_default' = [db_default EXCEPT ![c] = heed_delete(@, DefaultKey(c, key))]
            /\ UNCHANGED <<registry, db_scoped>>
       ELSE /\ db_scoped' = [db_scoped EXCEPT
                   ![c] = heed_delete(@, ScopedKey(c, scope.hash, key))]
            /\ UNCHANGED <<registry, db_default>>

\* clear of Default that empties the scoped sub-database as well
Clear_BothSubDatabases(c, scope) ==
    /\ wtxn.owner = "none"
    /\ UNCHANGED txnvars
    /\ IF scope.kind = "Default"
       THEN /\ db_default' = [db_default EXCEPT ![c] = EmptyDb]
            /\ db_scoped' = [db_scoped EXCEPT ![c] = EmptyDb]
            /\ last' = [op |-> "clear", ret |-> Ok]
            /\ UNCHANGED registry
       ELSE LET r == register_scope(registry, scope)
            IN  IF r.res.ok
                THEN /\ registry' = r.reg
                     /\ db_scoped' = [db_scoped EXCEPT ![c] = clear_scoped(c, @, scope.hash)]
                     /\ last' = [op |-> "clear", ret |-> Ok]
                     /\ UNCHANGED db_default
                ELSE /\ last' = [op |-> "clear", ret |-> r.res]
                     /\ UNCHANGED <<registry, db_default, db_scoped>>

\* clear that unregisters the scope it has emptied
Clear_Unregisters(c, scope) ==
    /\ wtxn.owner = "none"
    /\ UNCHANGED txnvars
    /\ IF scope.kind = "Default"
       THEN /\ db_default' = [db_default EXCEPT ![c] = EmptyDb]
            /\ last' = [op |-> "clear", ret |-> Ok]
            /\ UNCHANGED <<registry, db_scoped>>
       ELSE LET r == register_scope(registry, scope)
            IN  IF r.res.ok
                THEN /\ registry' = unregister_scope(r.reg, scope.hash)
                     /\ db_scoped' = [db_scoped EXCEPT ![c] = clear_scoped(c, @, scope.hash)]
                     /\ last' = [op |-> "clear", ret |-> Ok]
                     /\ UNCHANGED db_default
                ELSE /\ last' = [op |-> "clear", ret |-> r.res]
                     /\ UNCHANGED <<registry, db_default, db_scoped>>

\* clear
Clear(c, scope) ==
    /\ wtxn.owner = "none"
    /\ UNCHANGED txnvars
    /\ IF scope.kind = "Default"
       THEN /\ db_default' = [db_default EXCEPT ![c] = EmptyDb]
            /\ last' = [op |-> "clear", ret |-> Ok]
            /\ UNCHANGED <<registry, db_scoped>>
       ELSE LET r == register_scope(registry, scope)
            IN  IF r.res.ok
                THEN /\ registry' = r.reg
                     /\ db_scoped' = [db_scoped EXCEPT ![c] = clear_scoped(c, @, scope.hash)]
                     /\ last' = [op |-> "clear", ret |-> Ok]
                     /\ UNCHANGED db_default
                ELSE /\ last' = [op |-> "clear", ret |-> r.res]
                     /\ UNCHANGED <<registry, db_default, db_scoped>>

\* iter, drained by the caller
Iter(c, scope) ==
    /\ UNCHANGED txnvars
    /\ last' = [op |-> "iter", ret |-> iter(c, db_default[c], db_scoped[c], scope)]
    /\ UNCHANGED <<registry, db_default, db_scoped>>

\* range, drained by the caller
RangeOp(c, scope, lo, hi) ==
    /\ UNCHANGED txnvars
    /\ last' = [op |-> "range",
                ret |-> range(c, db_default[c], db_scoped[c], scope, lo, hi)]
    /\ UNCHANGED <<registry, db_default, db_scoped>>

\* register_scope called directly on a container
RegisterScope(scope) ==
    /\ wtxn.owner = "none"
    /\ UNCHANGED txnvars
    /\ LET r == register_scope(registry, scope)
       IN  /\ registry' = r.reg
           /\ last' = [op |-> "register_scope", ret |-> r.res]
           /\ UNCHANGED <<db_default, db_scoped>>

\* An unregister that also deletes the entries stored under the hash
UnregisterScope_DropsEntries(hash) ==
    /\ wtxn.owner = "none"
    /\ UNCHANGED txnvars
    /\ registry' = unregister_scope(registry, hash)
    /\ last' = [op |-> "unregister_scope", ret |-> Ok]
    /\ db_scoped' = [c \in Containers |->
            [b \in {x \in DOMAIN db_scoped[c] : SubSeq(x, 1, 4) /= to_le_bytes(hash)}
                |-> db_scoped[c][b]]]
    /\ UNCHANGED db_default

\* GlobalScopeRegistry::unregister_scope called directly
UnregisterScope(hash) ==
    /\ wtxn.owner = "none"
    /\ UNCHANGED txnvars
    /\ registry' = unregister_scope(registry, hash)
    /\ last' = [op |-> "unregister_scope", ret |-> Ok]
    /\ UNCHANGED <<db_default, db_scoped>>

\* GlobalScopeRegistry::prune_globally_unused_scopes
Prune(databases) ==
    /\ wtxn.owner = "none"
    /\ UNCHANGED txnvars
    /\ LET r == prune_globally_unused_scopes(registry, databases, db_default, db_scoped)
       IN  /\ registry' = r.reg
           /\ last' = [op |-> "prune", ret |-> r.pruned_count]
           /\ UNCHANGED <<db_default, db_scoped>>

\* is_scope_empty_in_db
IsScopeEmptyInDb(c, scope) ==
    /\ UNCHANGED txnvars
    /\ last' = [op |-> "is_scope_empty_in_db",
                ret |-> is_scope_empty(c, db_default[c], db_scoped[c], scope)]
    /\ UNCHANGED <<registry, db_default, db_scoped>>

\* list_scopes
ListScopes ==
    /\ UNCHANGED txnvars
    /\ last' = [op |-> "list_scopes", ret |-> list_all_scopes(registry)]
    /\ UNCHANGED <<registry, db_default, db_scoped>>

\* find_empty_scopes
FindEmptyScopes(c) ==
    /\ UNCHANGED txnvars
    /\ last' = [op |-> "find_empty_scopes",
                ret |-> find_empty_scopes(c, registry, db_default[c], db_scoped[c])]
    /\ UNCHANGED <<registry, db_default, db_scoped>>

\* GlobalScopeRegistry::get_scope_name
GetScopeName(hash) ==
    /\ UNCHANGED txnvars
    /\ last' = [op |-> "get_scope_name", ret |-> get_scope_name(registry, hash)]
    /\ UNCHANGED <<registry, db_default, db_scoped>>

\* GlobalScopeRegistry::lookup_scope_hash
LookupScopeHash(name) ==
    /\ UNCHANGED txnvars
    /\ last' = [op |-> "lookup_scope_hash", ret |-> lookup_scope_hash(registry, name)]
    /\ UNCHANGED <<registry, db_default, db_scoped>>

\* GlobalScopeRegistry::scope_exists
ScopeExists(scope) ==
    /\ UNCHANGED txnvars
    /\ last' = [op |-> "scope_exists", ret |-> scope_exists(registry, scope)]
    /\ UNCHANGED <<registry, db_default, db_scoped>>

-----------------------------------------------------------------------------
(* Write transactions held open by writer threads: the engine admits one    *)
(* write transaction at a time; what it stages is seen by its owner only    *)
(* and becomes the environment's state on commit, or is dropped on abort    *)

\* env.write_txn(): returns once no other write transaction is open
WriteTxn(w) ==
    /\ writers[w].pc = "idle"
    /\ wtxn.owner = "none"
    /\ wtxn' = [owner |-> w, registry |-> registry,
                db_default |-> db_default, db_scoped |-> db_scoped]
    /\ writers' = [writers EXCEPT ![w].pc = "open"]
    /\ last' = [op |-> "write_txn", ret |-> Ok]
    /\ UNCHANGED <<registry, db_default, db_scoped>>

\* register_scope inside the writer's open transaction
TxnRegisterScope(w, scope) ==
    /\ writers[w].pc = "open"
    /\ wtxn.owner = w
    /\ writers[w].name = ""
    /\ LET r == register_scope(wtxn.registry, scope)
       IN  /\ wtxn' = [wtxn EXCEPT !.registry = r.reg]
           /\ writers' = [writers EXCEPT
                  ![w].name = scope.name,
                  ![w].res = r.res,
                  ![w].inserted = ~get_scope_name(wtxn.registry, scope.hash).some]
           /\ last' = [op |-> "register_scope", ret |-> r.res]
    /\ UNCHANGED <<registry, db_default, db_scoped>>

\* put inside a transaction whose registration goes to the environment
\* directly, outside the caller's transaction
TxnPut_RegistryOutsideTxn(w, c, scope, key, value) ==
    /\ writers[w].pc = "open"
    /\ wtxn.owner = w
    /\ writers[w].name = ""
    /\ scope.kind = "Named"
    /\ LET r == register_scope(registry, scope)
       IN  /\ registry' = r.reg
           /\ wtxn' = IF r.res.ok
                      THEN [wtxn EXCEPT
                               !.registry = r.reg,
                               !.db_scoped[c] =
                                   heed_put(@, ScopedKey(c, scope.hash, key), value)]
                      ELSE wtxn
           /\ writers' = [writers EXCEPT
                  ![w].name = scope.name,
                  ![w].res = r.res,
                  ![w].inserted = ~get_scope_name(registry, scope.hash).some]
           /\ last' = [op |-> "put", ret |-> r.res]
    /\ UNCHANGED <<db_default, db_scoped>>

\* put to a named scope inside the writer's open transaction
TxnPut(w, c, scope, key, value) ==
    /\ writers[w].pc = "open"
    /\ wtxn.owner = w
    /\ writers[w].name = ""
    /\ scope.kind = "Named"
    /\ LET r == register_scope(wtxn.registry, scope)
       IN  /\ wtxn' = IF r.res.ok
                      THEN [wtxn EXCEPT
                               !.registry = r.reg,
                               !.db_scoped[c] =
                                   heed_put(@, ScopedKey(c, scope.hash, key), value)]
                      ELSE wtxn
           /\ writers' = [writers EXCEPT
                  ![w].name = scope.name,
                  ![w].res = r.res,
                  ![w].inserted = ~get_scope_name(wtxn.registry, scope.hash).some]
           /\ last' = [op |-> "put", ret |-> r.res]
    /\ UNCHANGED <<registry, db_default, db_scoped>>

\* delete on a named scope inside the writer's open transaction
TxnDelete(w, c, scope, key) ==
    /\ writers[w].pc = "open"
    /\ wtxn.owner = w
    /\ scope.kind = "Named"
    /\ wtxn' = [wtxn EXCEPT
                   !.db_scoped[c] = heed_delete(@, ScopedKey(c, scope.hash, key))]
    /\ last' = [op |-> "delete",
                ret |-> get(c, wtxn.db_default[c], wtxn.db_scoped[c], scope, key).some]
    /\ UNCHANGED <<registry, db_default, db_scoped, writers>>

\* clear on a named scope inside the writer's open transaction
TxnClear(w, c, scope) ==
    /\ writers[w].pc = "open"
    /\ wtxn.owner = w
    /\ scope.kind = "Named"
    /\ LET r == register_scope(wtxn.registry, scope)
       IN  /\ wtxn' = IF r.res.ok
                      THEN [wtxn EXCEPT
                               !.registry = r.reg,
                               !.db_scoped[c] = clear_scoped(c, @, scope.hash)]
                      ELSE wtxn
           /\ last' = [op |-> "clear", ret |-> r.res]
    /\ UNCHANGED <<registry, db_default, db_scoped, writers>>

\* wtxn.commit(): what the transaction staged becomes the environment's state
Commit(w) ==
    /\ writers[w].pc = "open"
    /\ wtxn.owner = w
    /\ registry' = wtxn.registry
    /\ db_default' = wtxn.db_default
    /\ db_scoped' = wtxn.db_scoped
    /\ wtxn' = NoTxn
    /\ writers' = [writers EXCEPT ![w].pc = "committed"]
    /\ last' = [op |-> "commit", ret |-> Ok]

\* The write transaction dropped without commit: what it staged is discarded
Abort(w) ==
    /\ writers[w].pc = "open"
    /\ wtxn.owner = w
    /\ wtxn' = NoTxn
    /\ writers' = [writers EXCEPT ![w].pc = "aborted"]
    /\ last' = [op |-> "abort", ret |-> Ok]
    /\ UNCHANGED <<registry, db_default, db_scoped>>

Next ==
    \/ \E c \in Containers, scope \in Scopes, key \in Keys, value \in Values :
            Put(c, scope, key, value)
    \/ \E c \in Containers, scope \in Scopes, key \in Keys : Get(c, scope, key)
    \/ \E c \in Containers, scope \in Scopes, key \in Keys : Delete(c, scope, key)
    \/ \E c \in Containers, scope \in Scopes : Clear(c, scope)
    \/ \E c \in Containers, scope \in Scopes : Iter(c, scope)
    \/ \E c \in Containers, scope \in Scopes, r \in Ranges :
            RangeOp(c, scope, r[1], r[2])
    \/ \E scope \in Scopes : RegisterScope(scope)
    \/ \E scope \in NamedScopes : UnregisterScope(scope.hash)
    \/ \E databases \in CheckerLists : Prune(databases)
    \/ \E c \in Containers, scope \in Scopes : IsScopeEmptyInDb(c, scope)
    \/ ListScopes
    \/ \E c \in Containers : FindEmptyScopes(c)
    \/ \E hash \in ApiHashes : GetScopeName(hash)
    \/ \E name \in ApiNames : LookupScopeHash(name)
    \/ \E scope \in ApiScopes : ScopeExists(scope)
    \/ \E w \in Writers : WriteTxn(w)
    \/ \E w \in Writers, scope \in NamedScopes : TxnRegisterScope(w, scope)
    \/ \E w \in Writers, c \in Containers, scope \in NamedScopes :
            TxnPut(w, c, scope, <<97>>, "v1")
    \/ \E w \in Writers : Commit(w)
    \/ \E w \in Writers : Abort(w)

Spec == Init /\ [][Next]_vars

\* Two writer threads, each registering one scope, directly or through put,
\* inside a write transaction that it commits or drops
NextTxn ==
    \/ \E w \in Writers : WriteTxn(w)
    \/ \E w \in Writers, scope \in NamedScopes : TxnRegisterScope(w, scope)
    \/ \E w \in Writers, c \in Containers, scope \in NamedScopes :
            TxnPut(w, c, scope, <<97>>, "v1")
    \/ \E w \in Writers : Commit(w)
    \/ \E w \in Writers : Abort(w)

SpecTxn == Init /\ [][NextTxn]_vars

\* Two writer threads, each issuing one put to a named scope inside a write
\* transaction that it commits or drops
NextTxnPut ==
    \/ \E w \in Writers : WriteTxn(w)
    \/ \E w \in Writers, c \in Containers, scope \in ApiNamedScopes, key \in Keys :
            TxnPut(w, c, scope, key, "v1")
    \/ \E w \in Writers : Commit(w)
    \/ \E w \in Writers : Abort(w)

SpecTxnPut == Init /\ [][NextTxnPut]_vars

\* The scope a worker thread keeps to: worker.scope of the worker's own name
worker_scope(w) == Scope_named(IF w = "w1" THEN "tenant_2" ELSE "tenant_4")

\* Two worker threads, each putting, deleting and clearing entries of its own
\* named scope inside one write transaction, which it commits
NextWorkers ==
    \/ \E w \in Writers : WriteTxn(w)
    \/ \E w \in Writers, c \in Containers : TxnPut(w, c, worker_scope(w), <<97>>, "v1")
    \/ \E w \in Writers, c \in Containers : TxnDelete(w, c, worker_scope(w), <<97>>)
    \/ \E w \in Writers, c \in Containers : TxnClear(w, c, worker_scope(w))
    \/ \E w \in Writers : Commit(w)

SpecWorkers == Init /\ [][NextWorkers]_vars

\* The registry, with every scope value a caller can build: names that
\* collide in their hash and named scopes built from their fields
NextRegistry ==
    \/ \E c \in Containers, scope \in ApiNamedScopes : Put(c, scope, <<97>>, "v1")
    \/ \E c \in Containers, scope \in ApiNamedScopes : Delete(c, scope, <<97>>)
    \/ \E c \in Containers, scope \in ApiNamedScopes : Clear(c, scope)
    \/ \E scope \in ApiScopes : RegisterScope(scope)
    \/ \E hash \in ApiHashes : UnregisterScope(hash)
    \/ \E databases \in CheckerLists : Prune(databases)
    \/ ListScopes
    \/ \E hash \in ApiHashes : GetScopeName(hash)
    \/ \E name \in ApiNames : LookupScopeHash(name)
    \/ \E scope \in ApiScopes : ScopeExists(scope)

SpecRegistry == Init /\ [][NextRegistry]_vars

\* The key-value operations alone
NextKV ==
    \/ \E c \in Containers, scope \in Scopes, key \in Keys, value \in Values :
            Put(c, scope, key, value)
    \/ \E c \in Containers, scope \in Scopes, key \in Keys : Get(c, scope, key)
    \/ \E c \in Containers, scope \in Scopes, key \in Keys : Delete(c, scope, key)
    \/ \E c \in Containers, scope \in Scopes : Clear(c, scope)
    \/ \E c \in Containers, scope \in Scopes : Iter(c, scope)
    \/ \E c \in Containers, scope \in Scopes, r \in Ranges :
            RangeOp(c, scope, r[1], r[2])

SpecKV == Init /\ [][NextKV]_vars

\* Puts to named scopes, and every read operation of the containers and of
\* the registry
NextReads ==
    \/ \E c \in Containers, scope \in NamedScopes : Put(c, scope, <<97>>, "v1")
    \/ \E c \in Containers, scope \in NamedScopes : Get(c, scope, <<97>>)
    \/ \E c \in Containers, scope \in NamedScopes : Iter(c, scope)
    \/ \E c \in Containers, scope \in NamedScopes, r \in Ranges :
            RangeOp(c, scope, r[1], r[2])
    \/ ListScopes
    \/ \E scope \in Scopes : ScopeExists(scope)
    \/ \E scope \in NamedScopes : GetScopeName(scope.hash)
    \/ \E name \in ScopeNames : LookupScopeHash(name)

SpecReads == Init /\ [][NextReads]_vars

\* The writes and the scope lifecycle
NextLifecycle ==
    \/ \E c \in Containers, scope \in Scopes, key \in Keys, value \in Values :
            Put(c, scope, key, value)
    \/ \E c \in Containers, scope \in Scopes, key \in Keys : Delete(c, scope, key)
    \/ \E c \in Containers, scope \in Scopes : Clear(c, scope)
    \/ \E scope \in Scopes : RegisterScope(scope)
    \/ \E scope \in NamedScopes : UnregisterScope(scope.hash)
    \/ \E databases \in CheckerLists : Prune(databases)
    \/ \E c \in Containers, scope \in Scopes : IsScopeEmptyInDb(c, scope)
    \/ ListScopes
    \/ \E c \in Containers : FindEmptyScopes(c)

SpecLifecycle == Init /\ [][NextLifecycle]_vars

\* Every container of the environment, as handed to prune
AllContainers == <<"typed", "bytes_key", "raw_bytes">>

\* Writes and prunes over all containers, without any explicit unregister
NextR3 ==
    \/ \E c \in Containers, scope \in Scopes, key \in Keys, value \in Values :
            Put(c, scope, key, value)
    \/ \E c \in Containers, scope \in Scopes, key \in Keys : Delete(c, scope, key)
    \/ \E c \in Containers, scope \in Scopes : Clear(c, scope)
    \/ Prune(AllContainers)

SpecR3 == Init /\ [][NextR3]_vars

-----------------------------------------------------------------------------
(* The builder, over an environment given as the set of names of its        *)
(* sub-databases                                                            *)

\* ScopedDbError::InvalidInput("Database name is required")
NameRequired == [ok |-> FALSE, err |-> "InvalidInput", msg |-> "Database name is required"]

\* GlobalScopeRegistry::GLOBAL_METADATA_DB_NAME
GLOBAL_METADATA_DB_NAME == "__global_scope_metadata"

\* env.database_options().name(name).create(txn): the sub-database is opened,
\* and created first if the environment does not have it
heed_create(env, name) == env \cup {name}

\* ScopedDatabase::create
ScopedDatabase_create(env, name, global_registry) ==
    LET default_name == name
        scoped_name  == name \o "_scoped"
    IN  [res |-> Ok,
         env |-> heed_create(heed_create(env, default_name), scoped_name),
         db  |-> [db_scoped |-> Some(scoped_name),
                  db_default |-> Some(default_name),
                  global_registry |-> global_registry]]

\* ScopedDatabase::create_internal
create_internal(env, name, global_registry) ==
    ScopedDatabase_create(env, name, global_registry)

\* ScopedBytesKeyDatabase::create
ScopedBytesKeyDatabase_create(env, name, global_registry) ==
    LET default_name == name
        scoped_name  == name \o "_scoped"
    IN  [res |-> Ok,
         env |-> heed_create(heed_create(env, default_name), scoped_name),
         db  |-> [db_scoped |-> Some(scoped_name),
                  db_default |-> Some(default_name),
                  global_registry |-> global_registry]]

\* ScopedBytesDatabase::create; the unnamed database is always there
ScopedBytesDatabase_create(env, name, global_registry, use_unnamed_for_default) ==
    LET scoped_name == name \o "_scoped"
    IN  [res |-> Ok,
         env |-> heed_create(IF use_unnamed_for_default THEN env ELSE heed_create(env, name),
                             scoped_name),
         db  |-> [db_scoped |-> Some(scoped_name),
                  db_default |-> IF use_unnamed_for_default THEN None ELSE Some(name),
                  global_registry |-> global_registry]]

\* The use_unnamed_for_default that RawBytesOptions::create passes on
RawBytesOptions_use_unnamed_for_default == FALSE

\* ScopedDatabaseOptions::new
ScopedDatabaseOptions_new(global_registry) == [global_registry |-> global_registry]

\* ScopedDatabaseOptions::types, ::bytes_keys and ::raw_bytes, by the
\* flavour of container each stands for
Options_flavour(options, flavour) ==
    [flavour |-> flavour, name |-> None, global_registry |-> options.global_registry]

\* TypedOptions::name, BytesKeysOptions::name, RawBytesOptions::name
Options_name(options, name) == [options EXCEPT !.name = Some(name)]

\* TypedOptions::create that falls back to a fixed name
TypedOptions_create_FixedName(options, env) ==
    create_internal(env,
        IF options.name.some THEN options.name.val ELSE "default",
        options.global_registry)

\* TypedOptions::create
TypedOptions_create(options, env) ==
    IF ~options.name.some
    THEN [res |-> NameRequired, env |-> env]
    ELSE create_internal(env, options.name.val, options.global_registry)

\* BytesKeysOptions::create
BytesKeysOptions_create(options, env) ==
    IF ~options.name.some
    THEN [res |-> NameRequired, env |-> env]
    ELSE ScopedBytesKeyDatabase_create(env, options.name.val, options.global_registry)

\* RawBytesOptions::create
RawBytesOptions_create(options, env) ==
    IF ~options.name.some
    THEN [res |-> NameRequired, env |-> env]
    ELSE ScopedBytesDatabase_create(env, options.name.val, options.global_registry,
                                    RawBytesOptions_use_unnamed_for_default)

-----------------------------------------------------------------------------
(* Calls that touch no sub-database: the constructors, accessors and        *)
(* comparison of Scope, the key codec and the builder, each applied to an   *)
(* input drawn at the start                                                 *)

\* No call made yet: the input the caller is about to pass
Input(arg) == [op |-> "input", arg |-> arg, ret |-> None]

\* The 8 length bytes of a buffer that declares the key length n, for
\*   n = 1, 2, 2^32, 2^64 - 13, 2^64 - 12 and 2^64 - 1
DeclaredLengths ==
    { <<1, 0, 0, 0, 0, 0, 0, 0>>, <<2, 0, 0, 0, 0, 0, 0, 0>>,
      <<0, 0, 0, 0, 1, 0, 0, 0>>,
      <<243, 255, 255, 255, 255, 255, 255, 255>>,
      <<244, 255, 255, 255, 255, 255, 255, 255>>,
      <<255, 255, 255, 255, 255, 255, 255, 255>> }

\* Buffers handed to decode: every prefix of an encoding, and a scope hash
\* followed by a declared length and the key bytes "", "a", "aa" or "b"
Buffers ==
    LET encoded == ScopedBytesCodec_encode(U32_MAX, <<97, 97>>)
    IN  {SubSeq(encoded, 1, n) : n \in 0..Len(encoded)}
        \cup {to_le_bytes(compute_xxhash("abc")) \o d \o k :
                  d \in DeclaredLengths, k \in { << >>, <<97>>, <<97, 97>>, <<98>> }}

\* The (scope hash, key) items handed to encode: the hashes 0, 1, 256,
\* 0x540ebefd, 0x32d153ff and u32::MAX, the keys "", "a", "aa" and "b"
CodecItems ==
    {[scope_hash |-> h, key |-> k] :
        h \in { <<0, 0>>, <<0, 1>>, <<0, 256>>,
                compute_xxhash("tenant_2"), compute_xxhash("abc"), U32_MAX },
        k \in { << >>, <<97>>, <<97, 97>>, <<98>> }}

\* The environments the builder starts from: any of these sub-databases
\* may exist already
Environments ==
    SUBSET {"users", "users_scoped", "orders_scoped", GLOBAL_METADATA_DB_NAME}

\* What the callers pass: a scope name, an optional name, a scope, two
\* scopes; one, two or three items to encode, a buffer to decode; an
\* environment with the registry, flavour and optional name for the builder
Inputs ==
    {[name |-> n] : n \in NameInputs}
    \cup {[option |-> o] : o \in OptionInputs}
    \cup {[scope |-> x] : x \in ApiScopes}
    \cup {[pair |-> x] : x \in ApiScopes \X ApiScopes}
    \cup {[items |-> <<a>>] : a \in CodecItems}
    \cup {[items |-> <<a, b>>] : a \in CodecItems, b \in CodecItems}
    \cup {[items |-> <<a, b, c>>] : a \in CodecItems, b \in CodecItems, c \in CodecItems}
    \cup {[buffer |-> b] : b \in Buffers}
    \cup {[env |-> e, global_registry |-> r, flavour |-> f, database_name |-> n] :
              e \in Environments, r \in {"registry_1", "registry_2"},
              f \in Containers, n \in {None, Some("users"), Some("orders")}}

InitCall ==
    /\ registry = EmptyDb
    /\ db_default = [c \in Containers |-> EmptyDb]
    /\ db_scoped = [c \in Containers |-> EmptyDb]
    /\ last \in {Input(x) : x \in Inputs}
    /\ wtxn = NoTxn
    /\ writers = [w \in Writers |-> IdleWriter]

\* The call op on arg, returning ret
Call(op, arg, ret) ==
    /\ last' = [op |-> op, arg |-> arg, ret |-> ret]
    /\ UNCHANGED <<registry, db_default, db_scoped>>
    /\ UNCHANGED txnvars

ScopeNamed(name) ==
    /\ last = Input([name |-> name])
    /\ Call("Scope::named", last.arg, named(name))

ScopeFromStr(name) ==
    /\ last = Input([name |-> name])
    /\ Call("Scope::from(&str)", last.arg, Scope_from_str(name))

ScopeFromOption(name) ==
    /\ last = Input([option |-> name])
    /\ Call("Scope::from(Option<&str>)", last.arg, Scope_from_option(name))

ScopeName(scope) ==
    /\ last = Input([scope |-> scope])
    /\ Call("Scope::name", last.arg, Scope_name(scope))

ScopeHash(scope) ==
    /\ last = Input([scope |-> scope])
    /\ Call("Scope::hash", last.arg, Scope_hash(scope))

ScopeEq(a, b) ==
    /\ last = Input([pair |-> <<a, b>>])
    /\ Call("Scope::eq", last.arg, Scope_eq(a, b))

\* ScopedBytesCodec::encode, applied to each item in turn
Encode ==
    /\ last.op = "input"
    /\ "items" \in DOMAIN last.arg
    /\ Call("encode", last.arg,
           [i \in 1..Len(last.arg.items) |->
               ScopedBytesCodec_encode(last.arg.items[i].scope_hash, last.arg.items[i].key)])

\* ScopedBytesCodec::decode, applied to the encoding of one item
DecodeEncoded ==
    /\ last.op = "encode"
    /\ Len(last.ret) = 1
    /\ Call("decode", [items |-> last.arg.items, buffer |-> last.ret[1]],
           ScopedBytesCodec_decode(last.ret[1]))

\* ScopedBytesCodec::decode, applied to a buffer
Decode ==
    /\ last.op = "input"
    /\ "buffer" \in DOMAIN last.arg
    /\ Call("decode", last.arg, ScopedBytesCodec_decode(last.arg.buffer))

\* scoped_database_options(env, global_registry), the flavour, the name if
\* one is given, then .create(txn)
OptionsCreate ==
    /\ last.op = "input"
    /\ "env" \in DOMAIN last.arg
    /\ LET chosen  == Options_flavour(ScopedDatabaseOptions_new(last.arg.global_registry),
                                      last.arg.flavour)
           options == IF last.arg.database_name.some
                      THEN Options_name(chosen, last.arg.database_name.val)
                      ELSE chosen
       IN  Call("Options::create", last.arg,
               CASE options.flavour = "typed" -> TypedOptions_create(options, last.arg.env)
                 [] options.flavour = "bytes_key" -> BytesKeysOptions_create(options, last.arg.env)
                 [] options.flavour = "raw_bytes" -> RawBytesOptions_create(options, last.arg.env))

NextCall ==
    \/ \E name \in NameInputs : ScopeNamed(name)
    \/ \E name \in NameInputs : ScopeFromStr(name)
    \/ \E name \in OptionInputs : ScopeFromOption(name)
    \/ \E scope \in ApiScopes : ScopeName(scope)
    \/ \E scope \in ApiScopes : ScopeHash(scope)
    \/ \E a \in ApiScopes, b \in ApiScopes : ScopeEq(a, b)
    \/ Encode
    \/ DecodeEncoded
    \/ Decode
    \/ OptionsCreate

SpecCall == InitCall /\ [][NextCall]_vars

-----------------------------------------------------------------------------
(* Clones: a container value holds the handles of its two sub-databases and *)
(* a reference to the registry; an operation acts on what they refer to     *)

\* The container c as its create returns it, bound to the environment's registry
Handle(c) ==
    (CASE c = "typed" -> ScopedDatabase_create({}, c, GLOBAL_METADATA_DB_NAME)
       [] c = "bytes_key" -> ScopedBytesKeyDatabase_create({}, c, GLOBAL_METADATA_DB_NAME)
       [] c = "raw_bytes" ->
            ScopedBytesDatabase_create({}, c, GLOBAL_METADATA_DB_NAME, FALSE)).db

\* A clone that is given a registry of its own
clone_OwnRegistry(container) ==
    [db_scoped |-> container.db_scoped,
     db_default |-> container.db_default,
     global_registry |-> "clone of " \o container.global_registry]

\* impl Clone for ScopedDatabase, ScopedBytesKeyDatabase and ScopedBytesDatabase
clone(container) ==
    [db_scoped |-> container.db_scoped,
     db_default |-> container.db_default,
     global_registry |-> container.global_registry]

\* The sub-databases an operation on the scope reaches through the container
\* value: those of self.db_default or of self.db_scoped, with
\* self.global_registry the registry of the environment
Target(container, scope) ==
    {c \in Containers :
        /\ container.global_registry = GLOBAL_METADATA_DB_NAME
        /\ IF scope.kind = "Default"
           THEN container.db_default = Some(c)
           ELSE container.db_scoped = Some(c \o "_scoped")}

\* Operations issued through a container or through its clone
NextClone ==
    \E original \in Containers, scope \in Scopes :
        \E container \in {Handle(original), clone(Handle(original))} :
            \E c \in Target(container, scope) :
                \/ \E value \in Values : Put(c, scope, <<97>>, value)
                \/ Get(c, scope, <<97>>)
                \/ Delete(c, scope, <<97>>)
                \/ Clear(c, scope)
                \/ Iter(c, scope)
                \/ ScopeExists(scope)

SpecClone == Init /\ [][NextClone]_vars

-----------------------------------------------------------------------------
(* The scope with the largest id *)

\* A named scope whose hash is u32::MAX, built by the caller from the public
\* fields of Scope::Named
MaxScope == Named("max", U32_MAX)

\* User keys of length 0, 1 and 2: "", "a" and "aa"
MaxKeys == { << >>, <<97>>, <<97, 97>> }

\* The operations that have a u32::MAX branch, on the typed and the bytes-key
\* container
NextMax ==
    \/ \E c \in {"typed", "bytes_key"}, key \in MaxKeys : Put(c, MaxScope, key, "v1")
    \/ \E c \in {"typed", "bytes_key"} : Clear(c, MaxScope)
    \/ \E c \in {"typed", "bytes_key"} : Iter(c, MaxScope)
    \/ \E c \in {"typed", "bytes_key"} : RangeOp(c, MaxScope, Unbounded, Unbounded)
    \/ \E c \in {"typed", "bytes_key"} : IsScopeEmptyInDb(c, MaxScope)

SpecMax == Init /\ [][NextMax]_vars

-----------------------------------------------------------------------------
(* Scans over keys of mixed lengths *)

\* User keys "aa" and "b": the shorter one is the greater one
OrderKeys == { <<97, 97>>, <<98>> }

\* Puts of such keys into one named scope, and the scans of the scope
NextOrder ==
    \/ \E c \in Containers, key \in OrderKeys, value \in Values :
            Put(c, Scope_named("tenant_2"), key, value)
    \/ \E c \in Containers, key \in OrderKeys :
            Delete(c, Scope_named("tenant_2"), key)
    \/ \E c \in Containers : Iter(c, Scope_named("tenant_2"))
    \/ \E c \in Containers, r \in Ranges :
            RangeOp(c, Scope_named("tenant_2"), r[1], r[2])

SpecOrder == Init /\ [][NextOrder]_vars

-----------------------------------------------------------------------------
(* Containers whose sub-database names meet: a container created with the   *)
(* name of another container's scoped sub-database, or with the name of the *)
(* registry's sub-database                                                  *)

\* The container that ScopedBytesDatabase::create returns for the name that
\* the scoped sub-database of c has
Alias(c) ==
    ScopedBytesDatabase_create({}, c \o "_scoped", GLOBAL_METADATA_DB_NAME, FALSE).db

\* The container that ScopedBytesDatabase::create returns for the name of the
\* registry's sub-database
Reserved ==
    ScopedBytesDatabase_create({}, GLOBAL_METADATA_DB_NAME, GLOBAL_METADATA_DB_NAME,
                               FALSE).db

\* Keys put into the Default scope of Alias(c), all with the bytes of
\* tenant_2's id in front: one that declares a key byte it does not hold, the
\* composite key of "b", and one that declares 2^64-12 key bytes
AliasKeys ==
    { to_le_bytes(compute_xxhash("tenant_2")) \o u64_to_le_bytes(1),
      ScopedBytesCodec_encode(compute_xxhash("tenant_2"), <<98>>),
      to_le_bytes(compute_xxhash("tenant_2"))
          \o <<244, 255, 255, 255, 255, 255, 255, 255>> }

\* put on the Default scope of Alias(c): its db_default is c's db_scoped
AliasPut(c, key, value) ==
    /\ wtxn.owner = "none"
    /\ UNCHANGED txnvars
    /\ Alias(c).db_default = Some(c \o "_scoped")
    /\ key \in DOMAIN db_scoped[c] \/ TotalEntries < MaxEntries
    /\ db_scoped' = [db_scoped EXCEPT ![c] = heed_put(@, key, value)]
    /\ last' = [op |-> "put", ret |-> Ok]
    /\ UNCHANGED <<registry, db_default>>

\* iter on the Default scope of Alias(c), drained by the caller
AliasIter(c) ==
    /\ UNCHANGED txnvars
    /\ Alias(c).db_default = Some(c \o "_scoped")
    /\ last' = [op |-> "iter",
                ret |-> iter("raw_bytes", db_scoped[c], EmptyDb, Default)]
    /\ UNCHANGED <<registry, db_default, db_scoped>>

\* put on the Default scope of Reserved, with the four bytes of an id as the
\* key and a serialized name as the value: its db_default is metadata_db
ReservedPut(key, value) ==
    /\ wtxn.owner = "none"
    /\ UNCHANGED txnvars
    /\ Reserved.db_default = Some(GLOBAL_METADATA_DB_NAME)
    /\ registry' = heed_put(registry, from_le_bytes(key), value)
    /\ last' = [op |-> "put", ret |-> Ok]
    /\ UNCHANGED <<db_default, db_scoped>>

\* Writes and scans through a container and through the containers whose
\* names meet its own
NextAlias ==
    \/ \E c \in Containers : Put(c, Scope_named("tenant_2"), <<97>>, "v1")
    \/ \E c \in Containers, key \in AliasKeys, value \in {"v1", "bad"} :
            AliasPut(c, key, value)
    \/ \E c \in Containers : Iter(c, Scope_named("tenant_2"))
    \/ \E c \in Containers : RangeOp(c, Scope_named("tenant_2"), Unbounded, Unbounded)
    \/ \E c \in Containers : AliasIter(c)
    \/ ReservedPut(to_le_bytes(compute_xxhash("tenant_2")), "tenant_4")
    \/ ListScopes

SpecAlias == Init /\ [][NextAlias]_vars

-----------------------------------------------------------------------------
(* What a scope holds: the (key, value) pairs that get returns for it *)

StoredIn(c, dflt, scoped, scope) ==
    {<<k, v>> \in Keys \X Values : get(c, dflt, scoped, scope, k) = Some(v)}

\* A caller's range on user keys, in the user key's own (lexicographic) order
InUserRange(key, lo, hi) == AfterStart(key, lo) /\ BeforeEnd(key, hi)

\* The registry holds the entry id -> name of the scope
Registered(reg, scope) == get_scope_name(reg, scope.hash) = Some(scope.name)

\* The registry holds the scope's id under another name
Collides(reg, scope) ==
    /\ scope.kind = "Named"
    /\ get_scope_name(reg, scope.hash).some
    /\ get_scope_name(reg, scope.hash) /= Some(scope.name)

tenant_2 == Scope_named("tenant_2")
tenant_4 == Scope_named("tenant_4")
abc == Scope_named("abc")

-----------------------------------------------------------------------------
(* Claims *)

\* C1: same-key isolation on get. In every container flavour a put to a named
\* scope makes get of that scope and key return the value put, and leaves the
\* result of get unchanged for every other named scope and key, so that
\* after put(A,k,va) and put(B,k,vb), whatever puts follow to other scopes,
\* get(A,k) = va and get(B,k) = vb.
C1_PutGetIsolation ==
    [][ last'.op = "put" =>
        \A c \in Containers, scope \in NamedScopes, key \in Keys, value \in Values :
            Put(c, scope, key, value) =>
                /\ get(c, db_default'[c], db_scoped'[c], scope, key) = Some(value)
                /\ \A s2 \in NamedScopes, k2 \in Keys :
                      (s2 /= scope \/ k2 /= key) =>
                          get(c, db_default'[c], db_scoped'[c], s2, k2)
                              = get(c, db_default[c], db_scoped[c], s2, k2)
      ]_vars

\* C1 witness: one container holds the same key in two named scopes with
\* different values, and a get has just returned the first scope's value.
C1_Witness ==
    /\ last.op = "get"
    /\ last.ret = Some("v1")
    /\ \E c \in Containers, k \in Keys :
          /\ get(c, db_default[c], db_scoped[c], tenant_2, k) = Some("v1")
          /\ get(c, db_default[c], db_scoped[c], tenant_4, k) = Some("v2")

\* C4: iteration exclusion. In every container flavour, every item yielded by
\* iter on a scope is an entry stored in that scope, each yielded once; no
\* entry of Default or of a named scope with another id is yielded.
C4_IterExclusion ==
    \A c \in Containers, scope \in Scopes :
        LET items == iter(c, db_default[c], db_scoped[c], scope)
        IN  /\ Items(items) \subseteq StoredIn(c, db_default[c], db_scoped[c], scope)
            /\ Cardinality(Items(items)) = Len(items)

\* C4 witness: a container whose scoped sub-database holds an entry of
\* tenant_4 (id 0x7c2feefd) inside the engine range scanned for tenant_2
\* (id 0x540ebefd: same low byte, higher bytes differ), and iter on tenant_2
\* has just yielded tenant_2's entry alone.
C4_Witness ==
    /\ last.op = "iter"
    /\ \E c \in {"typed", "bytes_key"}, k \in Keys :
          /\ StoredIn(c, db_default[c], db_scoped[c], tenant_2) = {<<k, "v1">>}
          /\ StoredIn(c, db_default[c], db_scoped[c], tenant_4) = {<<k, "v2">>}
          /\ ScopedKey(c, tenant_4.hash, k) \in
                Items(heed_range(db_scoped[c], Bytes_start(tenant_2.hash),
                                 Bytes_end(tenant_2.hash)))
          /\ last.ret = <<(<<k, "v1">>)>>

\* C2: clear locality. In every container flavour, clear(C,S) leaves get
\* and iter of every other scope T (named with another id, or Default)
\* unchanged, whatever the byte patterns of the two ids.
C2_ClearLocality ==
    [][ last'.op = "clear" =>
        \A c \in Containers, scope \in Scopes :
            Clear(c, scope) =>
                \A t \in Scopes \ {scope} :
                    /\ \A k \in Keys :
                          get(c, db_default'[c], db_scoped'[c], t, k)
                              = get(c, db_default[c], db_scoped[c], t, k)
                    /\ iter(c, db_default'[c], db_scoped'[c], t)
                          = iter(c, db_default[c], db_scoped[c], t)
      ]_vars

\* C3: clear completeness. In every container flavour, after clear(C,S)
\* succeeds, get(C,S,k) = None for every key and iter(C,S) yields nothing,
\* for every named scope and for Default.
C3_ClearCompleteness ==
    [][ (last'.op = "clear" /\ last'.ret = Ok) =>
        \A c \in Containers, scope \in Scopes :
            Clear(c, scope) =>
                /\ \A k \in Keys :
                      get(c, db_default'[c], db_scoped'[c], scope, k) = None
                /\ iter(c, db_default'[c], db_scoped'[c], scope) = << >>
      ]_vars

\* C5: iteration completeness. In every container flavour and for every
\* named scope, whatever its id, iter yields exactly one item for every
\* entry currently stored in the scope.
C5_IterCompleteness ==
    \A c \in Containers, scope \in NamedScopes :
        LET items == iter(c, db_default[c], db_scoped[c], scope)
        IN  /\ Items(items) = StoredIn(c, db_default[c], db_scoped[c], scope)
            /\ Len(items) = Cardinality(StoredIn(c, db_default[c], db_scoped[c], scope))

\* C6: range fencing. In every container flavour, for every scope and every
\* range, every item yielded by range has a user key inside the range and is
\* an entry stored in that scope; no entry of another scope is yielded.
C6_RangeSoundness ==
    \A c \in Containers, scope \in Scopes, r \in Ranges :
        \A item \in Items(range(c, db_default[c], db_scoped[c], scope, r[1], r[2])) :
            /\ InUserRange(item[1], r[1], r[2])
            /\ item \in StoredIn(c, db_default[c], db_scoped[c], scope)

\* C7: range completeness. In every container flavour, for every named scope
\* and every range, range yields every entry of the scope whose user key
\* lies in the range, keys compared in the user key's own order.
C7_RangeCompleteness ==
    \A c \in Containers, scope \in NamedScopes, r \in Ranges :
        {item \in StoredIn(c, db_default[c], db_scoped[c], scope) :
             InUserRange(item[1], r[1], r[2])}
            \subseteq Items(range(c, db_default[c], db_scoped[c], scope, r[1], r[2]))

\* C10: emptiness check. In every container flavour is_scope_empty_in_db
\* returns true for a named scope iff the container holds no entry of it,
\* and for Default iff the default sub-database is empty.
C10_EmptinessCheck ==
    \A c \in Containers, scope \in Scopes :
        is_scope_empty(c, db_default[c], db_scoped[c], scope)
            <=> (StoredIn(c, db_default[c], db_scoped[c], scope) = {})

\* C8: registration invariant (R3). After any sequence of put, delete, clear
\* and prune over all containers of the environment, with no explicit
\* unregister, every named scope that holds an entry in some container has
\* the registry entry id -> name.
C8_RegistrationInvariant ==
    \A c \in Containers, scope \in NamedScopes :
        StoredIn(c, db_default[c], db_scoped[c], scope) /= {} =>
            /\ scope.hash \in DOMAIN registry
            /\ registry[scope.hash] = scope.name

\* C9: prune exactness. With a non-empty checker list prune unregisters
\* exactly the registered named scopes that every checker reports empty,
\* leaves every other registry entry unchanged, never removes Default and
\* returns the number of entries removed; with an empty list it removes
\* nothing and returns 0.
C9_PruneExactness ==
    [][ last'.op = "prune" =>
        \A databases \in CheckerLists :
            Prune(databases) =>
                LET removed ==
                        {h \in DOMAIN registry :
                            /\ databases /= << >>
                            /\ \A c \in Items(databases) :
                                  is_scope_empty(c, db_default[c], db_scoped[c],
                                                 Named(registry[h], h))}
                IN  /\ DOMAIN registry' = DOMAIN registry \ removed
                    /\ \A h \in DOMAIN registry' : registry'[h] = registry[h]
                    /\ last'.ret = Cardinality(removed)
                    /\ Head(list_all_scopes(registry')) = Default
      ]_vars

\* A prune has just removed one scope and kept another, which one of the
\* containers reports non-empty while another reports it empty
C9_Witness ==
    /\ last.op = "prune"
    /\ last.ret = 1
    /\ \E h \in DOMAIN registry, c1, c2 \in Containers :
          /\ ~is_scope_empty(c1, db_default[c1], db_scoped[c1], Named(registry[h], h))
          /\ is_scope_empty(c2, db_default[c2], db_scoped[c2], Named(registry[h], h))

\* C11: collision hard-fail. If the registry holds id -> n1 and register_scope
\* is called with a named scope of the same id and another name n2, the call
\* returns InvalidInput naming both n1 and n2 and the registry is left exactly
\* as it was: no entry added, none changed, no other id tried.
C11_CollisionHardFail ==
    [][ last'.op = "register_scope" =>
        \A scope \in ApiScopes :
            (RegisterScope(scope) /\ Collides(registry, scope)) =>
                /\ last'.ret = InvalidInput(scope.name, registry[scope.hash])
                /\ last'.ret.names = {scope.name, registry[scope.hash]}
                /\ Cardinality(last'.ret.names) = 2
                /\ registry' = registry
      ]_vars

\* A register_scope has just failed on the two names whose hashes collide
C11_Witness ==
    /\ last.op = "register_scope"
    /\ ~last.ret.ok
    /\ last.ret.err = "InvalidInput"
    /\ last.ret.names = CollidingNames
    /\ \E n \in CollidingNames : registry[compute_xxhash(n)] = n

\* C12: a put to a named scope whose id collides with a different registered
\* name fails with InvalidInput before any data is written: the scoped
\* sub-database, the default sub-database and the registry are unchanged.
C12_PutCollisionWritesNothing ==
    [][ last'.op = "put" =>
        \A c \in Containers, scope \in ApiNamedScopes :
            (Put(c, scope, <<97>>, "v1") /\ Collides(registry, scope)) =>
                /\ last'.ret = InvalidInput(scope.name, registry[scope.hash])
                /\ UNCHANGED <<registry, db_default, db_scoped>>
      ]_vars

\* A put has just failed on the colliding names while the scope that holds
\* the id has an entry stored
C12_Witness ==
    /\ last.op = "put"
    /\ ~last.ret.ok
    /\ last.ret.names = CollidingNames
    /\ \E c \in Containers, scope \in CollidingScopes :
          /\ Registered(registry, scope)
          /\ get(c, db_default[c], db_scoped[c], scope, <<97>>) = Some("v1")

\* C13: registry name uniqueness (R2). In every reachable registry state,
\* after any sequence of register, put, clear, unregister and prune with
\* scope values the public API accepts, no two entries carry the same name.
C13_NameUniqueness ==
    \A h1, h2 \in DOMAIN registry : registry[h1] = registry[h2] => h1 = h2

\* From every registry state the scope can be made Registered again: once
\* its id is unregistered, register_scope succeeds and stores id -> name
RegisteredReachable(reg) ==
    \A scope \in ApiNamedScopes :
        LET r == register_scope(unregister_scope(reg, scope.hash), scope)
        IN  r.res = Ok /\ Registered(r.reg, scope)

\* One step of the lifecycle of every named scope, where registering is the
\* set of operations that may take a scope from not registered to Registered
LifecycleStep(registering) ==
    /\ last.op = "create" => registry = EmptyDb
    /\ registry' /= registry =>
          /\ RegisteredReachable(registry')
          /\ \A scope \in ApiNamedScopes :
                /\ (~Registered(registry, scope) /\ Registered(registry', scope)) =>
                      (last'.op \in registering /\ last'.ret = Ok)
                /\ (Registered(registry, scope) /\ ~Registered(registry', scope)) =>
                      last'.op \in {"prune", "unregister_scope"}
    /\ (last'.op = "put" /\ last'.ret = Ok) =>
          \A c \in Containers, scope \in ApiNamedScopes :
              Put(c, scope, <<97>>, "v1") => Registered(registry', scope)
    /\ (last'.op = "register_scope" /\ last'.ret = Ok) =>
          \A scope \in ApiNamedScopes :
              RegisterScope(scope) => Registered(registry', scope)
    /\ last'.op = "unregister_scope" =>
          \A scope \in ApiNamedScopes :
              UnregisterScope(scope.hash) => ~Registered(registry', scope)
    /\ last'.op = "prune" =>
          \A databases \in CheckerLists :
              Prune(databases) =>
                  \A scope \in ApiNamedScopes :
                      Registered(registry, scope) =>
                          (~Registered(registry', scope) <=>
                              /\ databases /= << >>
                              /\ \A c \in Items(databases) :
                                    is_scope_empty(c, db_default[c], db_scoped[c], scope))

C15_RegistryRoundTrip ==
    [][ /\ Head(list_all_scopes(registry')) = Default
        /\ \A i \in 2..Len(list_all_scopes(registry')) :
              list_all_scopes(registry')[i].kind = "Named"
        /\ (last'.op = "register_scope" /\ last'.ret = Ok) =>
              \A scope \in ApiScopes :
                  RegisterScope(scope) =>
                      IF scope = Default
                      THEN registry' = registry
                      ELSE /\ scope \in Items(list_all_scopes(registry'))
                           /\ get_scope_name(registry', scope.hash) = Some(scope.name)
                           /\ lookup_scope_hash(registry', scope.name) = Some(scope.hash)
        /\ last'.op = "unregister_scope" =>
              \A hash \in ApiHashes :
                  UnregisterScope(hash) =>
                      /\ last'.ret = Ok
                      /\ \A scope \in Items(list_all_scopes(registry')) :
                            scope.kind = "Named" => scope.hash /= hash
                      /\ hash \notin DOMAIN registry => registry' = registry
      ]_vars

C17_DefaultNamedDisjoint ==
    [][ /\ \A c \in Containers :
              (db_default'[c] /= db_default[c] \/ db_scoped'[c] /= db_scoped[c]) =>
                  LET items == iter(c, db_default'[c], db_scoped'[c], Default)
                  IN  /\ Items(items) = StoredIn(c, db_default'[c], EmptyDb, Default)
                      /\ Len(items) = Entries(db_default'[c])
        /\ last'.op = "put" =>
              \A c \in Containers, scope \in Scopes, key \in Keys, value \in Values :
                  Put(c, scope, key, value) =>
                      /\ get(c, db_default'[c], db_scoped'[c], scope, key) = Some(value)
                      /\ \A s2 \in Scopes, k2 \in Keys :
                            (s2.kind /= scope.kind) =>
                                get(c, db_default'[c], db_scoped'[c], s2, k2)
                                    = get(c, db_default[c], db_scoped[c], s2, k2)
        /\ last'.op = "clear" =>
              \A c \in Containers :
                  Clear(c, Default) =>
                      /\ db_default'[c] = EmptyDb
                      /\ db_scoped' = db_scoped
                      /\ registry' = registry
                      /\ \A s2 \in NamedScopes, k2 \in Keys :
                            get(c, db_default'[c], db_scoped'[c], s2, k2)
                                = get(c, db_default[c], db_scoped[c], s2, k2)
      ]_vars

\* A get has just returned the Default value of a key that a named scope of
\* the same container holds with another value
C17_Witness ==
    /\ last.op = "get"
    /\ last.ret = Some("v1")
    /\ \E c \in Containers, k \in Keys :
          /\ get(c, db_default[c], db_scoped[c], Default, k) = Some("v1")
          /\ get(c, db_default[c], db_scoped[c], tenant_2, k) = Some("v2")
          /\ iter(c, db_default[c], db_scoped[c], Default) = <<(<<k, "v1">>)>>

\* C18: writes register their scope. After a successful put, delete or clear
\* on a named scope through any container, the scope is in the registry.
C18_WritesRegister ==
    [][ \A c \in Containers, scope \in NamedScopes :
            /\ (last'.op = "put" /\ last'.ret = Ok) =>
                  \A key \in Keys, value \in Values :
                      Put(c, scope, key, value) => Registered(registry', scope)
            /\ last'.op = "delete" =>
                  \A key \in Keys :
                      Delete(c, scope, key) => Registered(registry', scope)
            /\ (last'.op = "clear" /\ last'.ret = Ok) =>
                  (Clear(c, scope) => Registered(registry', scope))
      ]_vars

\* C19: clear never unregisters. In every container flavour, after clear on
\* a registered named scope the registry still holds its id -> name and
\* every other registry entry is unchanged.
C19_ClearKeepsRegistry ==
    [][ last'.op = "clear" =>
        \A c \in Containers, scope \in ApiNamedScopes :
            (Clear(c, scope) /\ Registered(registry, scope)) =>
                /\ last'.ret = Ok
                /\ Registered(registry', scope)
                /\ registry' = registry
      ]_vars

\* A clear has just run while two scopes are registered, one of them with
\* no entry left in any container and the other with an entry
C19_Witness ==
    /\ last.op = "clear"
    /\ last.ret = Ok
    /\ Registered(registry, tenant_2)
    /\ Registered(registry, abc)
    /\ \A c \in Containers :
          get(c, db_default[c], db_scoped[c], tenant_2, <<97>>) = None
    /\ \E c \in Containers :
          get(c, db_default[c], db_scoped[c], abc, <<97>>) = Some("v1")

\* The writers that have committed a registration of the name
Committed(name) ==
    {w \in Writers : writers[w].pc = "committed" /\ writers[w].name = name}

\* C20: concurrent registration. In any interleaving of two write
\* transactions that each register a scope of the same name, directly or
\* through put, the transactions are serialized, both registrations succeed
\* and after both commit the registry holds exactly one entry id -> name;
\* if one is dropped without commit, the other still succeeds and inserts.
C20_ConcurrentRegistration ==
    /\ Cardinality({w \in Writers : writers[w].pc = "open"}) <= 1
    /\ \A w \in Writers : writers[w].pc = "open" <=> wtxn.owner = w
    /\ \A name \in ScopeNames :
          /\ \A w \in Writers : writers[w].name = name => writers[w].res = Ok
          /\ Cardinality({h \in DOMAIN registry : registry[h] = name}) <= 1
          /\ IF Committed(name) = {}
             THEN compute_xxhash(name) \notin DOMAIN registry
             ELSE /\ Registered(registry, Scope_named(name))
                  /\ Cardinality({w \in Committed(name) : writers[w].inserted}) = 1

\* Both writers have committed a registration of the same name
C20_Witness ==
    /\ last.op = "commit"
    /\ Committed("tenant_2") = Writers
    /\ registry = (compute_xxhash("tenant_2") :> "tenant_2")

-----------------------------------------------------------------------------
\* The containers whose scoped sub-database holds an entry under the id
HoldersOf(scoped, hash) ==
    {c \in Containers :
        \E b \in DOMAIN scoped[c] : ScopedKeyDecode(c, b).scope_hash = hash}

-----------------------------------------------------------------------------
\* C22: scope construction. For every non-empty name s, Scope::named(s)
\* returns Named{name: s, hash: compute_xxhash(s)}, a value fixed by s alone;
\* Scope::named("") returns EmptyScopeDisallowed; the conversion from the
\* empty string, from Some("") or from None yields Default, and no
\* constructor yields a named scope with an empty name; name() and hash()
\* are None exactly for Default.
C22_ScopeConstruction ==
    /\ last.op = "Scope::named" =>
          IF last.arg.name = ""
          THEN last.ret = EmptyScopeDisallowed
          ELSE /\ last.ret.ok
               /\ last.ret.val.kind = "Named"
               /\ last.ret.val.name = last.arg.name
               /\ last.ret.val.hash = compute_xxhash(last.arg.name)
    /\ last.op = "Scope::from(&str)" =>
          IF last.arg.name = ""
          THEN last.ret = Default
          ELSE named(last.arg.name) = [ok |-> TRUE, val |-> last.ret]
    /\ last.op = "Scope::from(Option<&str>)" =>
          /\ (~last.arg.option.some \/ last.arg.option = Some("")) => last.ret = Default
          /\ last.ret.kind = "Named" =>
                /\ last.ret.name /= ""
                /\ last.arg.option = Some(last.ret.name)
    /\ last.op = "Scope::name" =>
          /\ last.ret = None <=> last.arg.scope = Default
          /\ last.ret.some => last.ret.val = last.arg.scope.name
    /\ last.op = "Scope::hash" =>
          /\ last.ret = None <=> last.arg.scope = Default
          /\ last.ret.some => last.ret.val = last.arg.scope.hash

\* The conversion was handed the empty string and returned Default
C22_Witness ==
    /\ last.op = "Scope::from(&str)"
    /\ last.arg.name = ""
    /\ last.ret = Default

\* C23: scope equality ignores the cached id. Two Scope values compare
\* equal if and only if they are the same variant and, for Named, carry the
\* same name, whatever their cached hash fields are.
C23_EqualityIgnoresId ==
    last.op = "Scope::eq" =>
        LET a == last.arg.pair[1]
            b == last.arg.pair[2]
        IN  last.ret <=> /\ a.kind = b.kind
                         /\ a.kind = "Named" => a.name = b.name

-----------------------------------------------------------------------------
\* C24: codec round-trip and layout. For every scope hash and every key
\* (the empty key included), encode(hash, key) is exactly 12 + len(key)
\* bytes: the 4 bytes of the hash, the 8 bytes of the key length, then the
\* key bytes; and decode(encode(hash, key)) = (hash, key).
C24_CodecRoundTrip ==
    /\ (last.op = "encode" /\ Len(last.arg.items) = 1) =>
          LET item == last.arg.items[1]
              out  == last.ret[1]
          IN  /\ Len(out) = 12 + Len(item.key)
              /\ SubSeq(out, 1, 4) = to_le_bytes(item.scope_hash)
              /\ SubSeq(out, 5, 12) = u64_to_le_bytes(Len(item.key))
              /\ SubSeq(out, 13, Len(out)) = item.key
    /\ (last.op = "decode" /\ "items" \in DOMAIN last.arg) =>
          last.ret = last.arg.items[1]

\* The empty key under u32::MAX was encoded to 12 bytes and decoded back
C24_Witness ==
    /\ last.op = "decode"
    /\ "items" \in DOMAIN last.arg
    /\ last.arg.items = <<[scope_hash |-> U32_MAX, key |-> << >>]>>
    /\ Len(last.arg.buffer) = 12
    /\ last.ret = [scope_hash |-> U32_MAX, key |-> << >>]

\* A buffer shorter than 12 bytes, or shorter than 12 + the key length it
\* declares (the length taken as the 64-bit number it is)
Malformed(bytes) ==
    \/ Len(bytes) < 12
    \/ Len(bytes) < 12 + u64_from_le_bytes(SubSeq(bytes, 5, 12))

\* C25: decode rejects malformed input as a value. For every buffer
\* shorter than 12 bytes, and every buffer shorter than 12 + the 64-bit key
\* length it declares, decode returns the Encoding error: it neither
\* panics nor returns a key.
C25_DecodeRejects ==
    (last.op = "decode" /\ Malformed(last.arg.buffer)) => last.ret = CodecErr

\* a < b as unsigned 32-bit numbers
U32Less(a, b) == a[1] < b[1] \/ (a[1] = b[1] /\ a[2] < b[2])

\* C29: composite-key ordering. For all (hash1, k1) and (hash2, k2) the
\* encodings compare, in byte order, first by scope hash as an unsigned
\* 32-bit number (hash1 < hash2 implies encode(hash1, k1) < encode(hash2,
\* k2)) and, for equal hashes, by user key (k1 < k2 in byte order implies
\* encode(hash, k1) < encode(hash, k2)).
C29_CompositeKeyOrdering ==
    (last.op = "encode" /\ Len(last.arg.items) = 2) =>
        LET a == last.arg.items[1]
            b == last.arg.items[2]
        IN  /\ U32Less(a.scope_hash, b.scope_hash) => LexLess(last.ret[1], last.ret[2])
            /\ (a.scope_hash = b.scope_hash /\ LexLess(a.key, b.key))
                  => LexLess(last.ret[1], last.ret[2])

\* C30: scope contiguity. In the byte order of the scoped sub-database the
\* entries of one scope hash form a contiguous key range: for composite
\* keys a < b < c, if a and c carry the same hash then b carries it too.
C30_ScopeContiguity ==
    (last.op = "encode" /\ Len(last.arg.items) = 3) =>
        \A i \in 1..3, j \in 1..3, k \in 1..3 :
            ( /\ LexLess(last.ret[i], last.ret[j])
              /\ LexLess(last.ret[j], last.ret[k])
              /\ last.arg.items[i].scope_hash = last.arg.items[k].scope_hash )
            => last.arg.items[j].scope_hash = last.arg.items[i].scope_hash

\* Three keys in byte order, the outer two of one scope and of different
\* key lengths, the middle one of that scope as well
C30_Witness ==
    /\ last.op = "encode"
    /\ Len(last.arg.items) = 3
    /\ last.arg.items[1] = [scope_hash |-> compute_xxhash("abc"), key |-> <<98>>]
    /\ last.arg.items[2] = [scope_hash |-> compute_xxhash("abc"), key |-> <<97, 97>>]
    /\ last.arg.items[3] = [scope_hash |-> compute_xxhash("abc"), key |-> <<97>>]
    /\ LexLess(last.ret[3], last.ret[1])
    /\ LexLess(last.ret[1], last.ret[2])

-----------------------------------------------------------------------------
-----------------------------------------------------------------------------
\* C26: clone equivalence. A clone of a container shares the sub-database
\* handles and the registry of the original: every operation has the same
\* result and the same effect whether it is issued through the original or
\* through the clone, and a scope registered through the clone is in the
\* registry the original sees.
C26_CloneEquivalence ==
    [][\A original \in Containers, scope \in Scopes :
          LET through_original == Target(Handle(original), scope)
              through_clone    == Target(clone(Handle(original)), scope)
          IN  CASE last'.op = "put" ->
                    \A value \in Values :
                        /\ (\E c \in through_original : Put(c, scope, <<97>>, value))
                              <=> (\E c \in through_clone : Put(c, scope, <<97>>, value))
                        /\ ( /\ scope.kind = "Named"
                              /\ last'.ret = Ok
                              /\ \E c \in through_clone : Put(c, scope, <<97>>, value) )
                              => /\ through_original /= {}
                                 /\ scope_exists(registry', scope)
                [] last'.op = "get" ->
                    (\E c \in through_original : Get(c, scope, <<97>>))
                        <=> (\E c \in through_clone : Get(c, scope, <<97>>))
                [] last'.op = "delete" ->
                    (\E c \in through_original : Delete(c, scope, <<97>>))
                        <=> (\E c \in through_clone : Delete(c, scope, <<97>>))
                [] last'.op = "clear" ->
                    (\E c \in through_original : Clear(c, scope))
                        <=> (\E c \in through_clone : Clear(c, scope))
                [] last'.op = "iter" ->
                    (\E c \in through_original : Iter(c, scope))
                        <=> (\E c \in through_clone : Iter(c, scope))
                [] OTHER -> TRUE
      ]_vars

\* A scope has been put to; the entry is read through the clone and the
\* scope is registered
C26_Witness ==
    /\ last.op = "put"
    /\ \E c \in Target(clone(Handle("typed")), abc) :
          get(c, db_default[c], db_scoped[c], abc, <<97>>) = Some("v1")
    /\ scope_exists(registry, abc)

-----------------------------------------------------------------------------
\* C28: find_empty_scopes(C) returns the number of named scopes in the
\* registry that have no entry in container C; Default is never counted,
\* and neither the registry nor any container's data changes.
C28_FindEmptyScopes ==
    [][last'.op = "find_empty_scopes" =>
          /\ \A c \in Containers :
                FindEmptyScopes(c) =>
                    last'.ret = Cardinality({hash \in DOMAIN registry :
                                                c \notin HoldersOf(db_scoped, hash)})
          /\ UNCHANGED <<registry, db_default, db_scoped>>
      ]_vars

\* C31: maximum id handling. For a named scope whose id is 2^32-1, in the
\* typed and the bytes-key container, a successful clear leaves no entry of
\* the scope, and iter, range with an unbounded upper end and
\* is_scope_empty_in_db see every entry of the scope, whatever the length of
\* its key.
C31_MaxIdHandling ==
    [][ \A c \in {"typed", "bytes_key"} :
          LET stored == {k \in MaxKeys :
                            get(c, db_default'[c], db_scoped'[c], MaxScope, k).some}
              seen(items) == {item[1] : item \in Items(items)}
          IN  /\ (last'.op = "clear" /\ last'.ret = Ok /\ Clear(c, MaxScope))
                    => stored = {}
              /\ seen(iter(c, db_default'[c], db_scoped'[c], MaxScope)) = stored
              /\ seen(range(c, db_default'[c], db_scoped'[c], MaxScope,
                            Unbounded, Unbounded)) = stored
              /\ is_scope_empty(c, db_default'[c], db_scoped'[c], MaxScope)
                    <=> (stored = {})
      ]_vars

\* The user keys of a sequence of items ascend strictly in lexicographic order
Ascending(items) ==
    \A i, j \in 1..Len(items) : i < j => LexLess(items[i][1], items[j][1])

\* C32: range order. For every container flavour and named scope, range and
\* iter yield their items in ascending lexicographic order of the user key,
\* for keys of mixed lengths as well as equal lengths.
C32_RangeOrder ==
    \A c \in Containers :
        /\ Ascending(iter(c, db_default[c], db_scoped[c], Scope_named("tenant_2")))
        /\ \A r \in Ranges :
              Ascending(range(c, db_default[c], db_scoped[c],
                              Scope_named("tenant_2"), r[1], r[2]))

\* The stored keys of the scoped sub-database that start with the id's bytes
\* and whose entry does not decode
Undecodable(c, scoped, hash) ==
    {b \in DOMAIN scoped : SubSeq(b, 1, 4) = to_le_bytes(hash) /\ DecodeFails(c, scoped, b)}

\* A scan that meets the undecodable entries of the scope's key range yields
\* an error item for each, goes on to the end, and yields every decodable
\* entry of the scope
YieldsPerItem(c, scoped, hash, items) ==
    /\ \A i \in 1..Len(items) : items[i] /= PanicItem
    /\ Cardinality({i \in 1..Len(items) : items[i] = DecodingErr})
          >= Cardinality(Undecodable(c, scoped, hash))
    /\ \A b \in DOMAIN scoped :
          (~DecodeFails(c, scoped, b) /\ ScopedKeyDecode(c, b).scope_hash = hash)
              => \E i \in 1..Len(items) :
                    items[i] = <<ScopedKeyDecode(c, b).key, scoped[b]>>

\* C33: per-item iterator errors. When a stored key or value fails to decode
\* during iter or range on a scope, the iterator yields an error item for it
\* and continues, still yielding every later decodable entry of the scope,
\* and the traversal ends.
C33_PerItemErrors ==
    \A c \in Containers :
        /\ YieldsPerItem(c, db_scoped[c], compute_xxhash("tenant_2"),
               iter(c, db_default[c], db_scoped[c], Scope_named("tenant_2")))
        /\ YieldsPerItem(c, db_scoped[c], compute_xxhash("tenant_2"),
               range(c, db_default[c], db_scoped[c], Scope_named("tenant_2"),
                     Unbounded, Unbounded))

\* C39: container storage disjointness. Two containers created with
\* different names in one environment share no sub-database: a put through
\* the container named n + "_scoped" changes nothing that a scan through the
\* container named n yields (neither data nor a decode error), a put through
\* n changes nothing that a scan through n + "_scoped" yields, and a put
\* through a container created with the registry's reserved name changes no
\* scope that the registry lists.
C39_StorageDisjointness ==
    [][ /\ \A c \in Containers :
            /\ (\E key \in AliasKeys, value \in {"v1", "bad"} : AliasPut(c, key, value))
                  => iter(c, db_default'[c], db_scoped'[c], Scope_named("tenant_2"))
                        = iter(c, db_default[c], db_scoped[c], Scope_named("tenant_2"))
            /\ Put(c, Scope_named("tenant_2"), <<97>>, "v1")
                  => iter("raw_bytes", db_scoped'[c], EmptyDb, Default)
                        = iter("raw_bytes", db_scoped[c], EmptyDb, Default)
        /\ ReservedPut(to_le_bytes(compute_xxhash("tenant_2")), "tenant_4")
              => list_all_scopes(registry') = list_all_scopes(registry)
      ]_vars

\* The scopes that list_all_scopes returns
Listed(reg) == {list_all_scopes(reg)[i] : i \in 1..Len(list_all_scopes(reg))}

C35_WriterNonInterference ==
    [][ \A w \in Writers :
          /\ (wtxn.owner = w /\ wtxn'.owner = w) =>
                \A c \in Containers, t \in Scopes \ {worker_scope(w)} :
                    StoredIn(c, wtxn'.db_default[c], wtxn'.db_scoped[c], t)
                        = StoredIn(c, wtxn.db_default[c], wtxn.db_scoped[c], t)
          /\ (wtxn.owner = w /\ wtxn'.owner = "none") =>
                \A c \in Containers, t \in Scopes :
                    StoredIn(c, db_default'[c], db_scoped'[c], t)
                        = StoredIn(c, wtxn.db_default[c], wtxn.db_scoped[c], t)
      ]_vars

\* C36: isolation under id collision. For two scopes A and B with different
\* names and equal ids, A the one the registry holds: get on B does not
\* return a value stored under A, and delete on B fails or leaves the
\* entries of A as they were.
C36_CollisionIsolation ==
    [][ \A c \in Containers, a \in CollidingScopes, b \in CollidingScopes :
          (a.name /= b.name /\ Registered(registry, a)) =>
              /\ get(c, db_default[c], db_scoped[c], b, <<97>>) = None
              /\ (last'.op = "delete" /\ Delete(c, b, <<97>>))
                    => db_scoped'[c] = db_scoped[c]
      ]_vars

\* C37: read operations are pure. get, iter, range, list_scopes,
\* scope_exists, get_scope_name and lookup_scope_hash leave the registry and
\* every sub-database unchanged; a read on a named scope that was never
\* registered returns None or an empty sequence and does not register it.
C37_ReadsArePure ==
    [][ last'.op \in {"get", "iter", "range", "list_scopes", "scope_exists",
                      "get_scope_name", "lookup_scope_hash"} =>
          /\ UNCHANGED <<registry, db_default, db_scoped>>
          /\ \A c \in Containers, scope \in NamedScopes :
                ~scope_exists(registry, scope) =>
                    /\ ~scope_exists(registry', scope)
                    /\ Get(c, scope, <<97>>) => last'.ret = None
                    /\ Iter(c, scope) => last'.ret = << >>
                    /\ \A r \in Ranges :
                          RangeOp(c, scope, r[1], r[2]) => last'.ret = << >>
      ]_vars

C40_ClearUnknownScope ==
    [][ last'.op = "clear" =>
        \A c \in Containers, scope \in ApiNamedScopes :
            Clear(c, scope) =>
                /\ ( /\ ~scope_exists(registry, scope)
                     /\ \A d \in Containers, k \in Keys :
                           get(d, db_default[d], db_scoped[d], scope, k) = None ) =>
                        /\ last'.ret = Ok
                        /\ Registered(registry', scope)
                        /\ UNCHANGED <<db_default, db_scoped>>
                /\ Collides(registry, scope) =>
                        /\ last'.ret = InvalidInput(scope.name, registry[scope.hash])
                        /\ UNCHANGED <<registry, db_default, db_scoped>>
      ]_vars

====
